---- MODULE Spec2Model ----
(***************************************************************************)
(* Model of plugin.py (flux plugin for G-Assist).                          *)
(*                                                                         *)
(* SpecMonitor : one streaming-graph session, from the call of             *)
(*               execute_comfyui_workflow to the end of                    *)
(*               generate_image_using_comfyui_worker.                      *)
(* SpecSteps   : the generate_image_using_kontext handler under every     *)
(*               value of the steps parameter.                             *)
(* SpecSelect  : the handler under every backend selector and URL.         *)
(* SpecTasks   : the background workers the handler starts, with the       *)
(*               configuration reloads of later commands, the wall clock   *)
(*               and the output files.                                     *)
(* SpecDispatch: main(), from the read of a command to the response, with  *)
(*               the handlers it routes to.                                *)
(* SpecRequest : the remote calls of one generation request: one session   *)
(*               or the worker threads.                                    *)
(* SpecInfer   : generate_image commands under every API key and endpoint  *)
(*               URL, with the threads they start.                         *)
(* SpecLive    : the worker threads under a fair scheduler and remote      *)
(*               services that may never answer.                           *)
(* SpecRead    : read_command, one frame read from the pipe in chunks.     *)
(* SpecNormalize: the resize and centre crop of the image normalizers,     *)
(*               in floating point.                                        *)
(* SpecMonitorLive: SpecMonitor on a scheduled thread with an advancing    *)
(*               wall clock.                                               *)
(* SpecConfig  : load_config under every content of config.json.           *)
(***************************************************************************)
EXTENDS Integers, Sequences, FiniteSets, TLC

\* ------------------------------------------------------------------ bounds
\* BUFFER_SIZE of read_command, 4096 in the source, scaled down
BUFFER_SIZE == 5
\* most characters between the braces of a frame
MaxInner == 4
\* most binary frames the simulated event stream delivers in one session
MaxFrames == 2
\* most image descriptors the simulated history lists for the session
MaxDescr == 2

\* most background tasks started in one run of the plugin specifications
MaxTasks == 2
\* last tick of the wall clock in SpecTasks
MaxClock == 2
\* clock ticks per second: strftime("%Y%m%d_%H%M%S") has a resolution of 1 s
TicksPerSecond == 2
\* most frames the dispatch loop reads in SpecDispatch
MaxReads == 2
\* most tool_calls in one frame with several calls
MaxCalls == 2
\* most images one streaming-graph session hands to its worker in SpecTasks
MaxImages == 1

\* bits of the significand of a float, 53 in the build, scaled down
SignificandBits == 5
\* longest side, in pixels, of a source image and of a target rectangle
MaxSide == 12

\* ------------------------------------------------------- program constants
\* params.get("steps", 30)
DefaultSteps == 30
\* if steps < 20 or steps > 50
MinSteps == 20
MaxSteps == 50
\* timeout_seconds = 300 (the wall-clock deadline of the monitoring loop)
timeout_seconds == 300
\* ws.settimeout(5): the per-read timeout of ws.recv()
RecvTimeout == 5
\* the correlation id the enqueue call returned for this session; "Q" is
\* the id of some other session sharing the server
prompt_id == "P"
\* the id of the SaveImage node of COMFYUI_FLUX_KONTEXT_WORKFLOW
SaveNode == "1"

VARIABLES
    pc,                 \* position of the session's worker thread
    elapsed,            \* (datetime.now() - start_time).total_seconds()
    workflow_completed, \* local of execute_comfyui_workflow
    output_images,      \* local dict: has1 = ("1" in output_images), imgs = output_images["1"]
    history,            \* what GET /history answers for this session (environment)
    dl,                 \* number of descriptors of the history the download loop has passed
    retval,             \* what execute_comfyui_workflow returned: "pending", "None", "output_images"
    endCause,           \* why the monitoring ended (history variable)
    endMsg,             \* the text frame that ended the monitoring, if one did
    calls,              \* remote calls and persistence steps made so far, in order
    files,              \* images written by the worker, in order
    si,                 \* index i of the worker's save loop
    workerLog,          \* the worker's verdict line: "none", "success", "failure"
    globals,            \* the module-level configuration variables (lines 50-64)
    tasks,              \* the background threads started so far, in order
    clock,              \* datetime.now(), in ticks
    disk,               \* the files in the output directories: path and last writer
    last,               \* the last generate_image_using_kontext call: input and response
    templates,          \* the patch points of the module-level workflow templates
    mpc,                \* position of main(): "recv", "route", "write", "check", "stopped", "crashed"
    cmd,                \* local cmd of main(): the func of the last call that had one
    input,              \* local input of main(): the frame read_command returned
    ci,                 \* index of the next tool_call of the frame
    response,           \* local response of main()
    out,                \* what write_response has written to the host, in order
    invoked,            \* the handlers main() has called for the current frame, in order
    reads,              \* number of read_command calls so far
    rpc,                \* position of read_command: "idle", "read", "decode", "returned"
    written,            \* the text the host wrote to the pipe, in characters
    pipe,               \* the bytes of it not yet read
    buffer,             \* local buffer of read_command after ReadFile
    message_bytes,      \* local message_bytes.value
    chunks,             \* local chunks
    command,            \* what read_command returned
    source_size,        \* img.size of the image handed to the normalizer
    target_size,        \* (target_width, target_height) of the call
    cropped_img,        \* the crop the normalizer made: its size and its origins
    config              \* config.json as the last load_config() of SpecConfig found it

mvars == <<pc, elapsed, workflow_completed, output_images, history, dl, retval,
           endCause, endMsg, calls, files, si, workerLog>>
pvars == <<globals, tasks, clock, disk, last, templates>>
dvars == <<mpc, cmd, input, ci, response, out, invoked, reads>>
rvars == <<rpc, written, pipe, buffer, message_bytes, chunks, command>>
nvars == <<source_size, target_size, cropped_img>>
cvars == <<config>>
vars == <<mvars, pvars, dvars, rvars, nvars, cvars>>

\* ---------------------------------------------------------- the environment
\* The answers GET /history can give (lines 2935-2947): the call raises, a
\* non-200 status, a body without the prompt id, a record without node "1",
\* a node "1" output without "images", or n image descriptors.
HistoryAnswers ==
    { [kind |-> k, n |-> 0] : k \in {"raise", "status", "absent", "nonode", "noimages"} }
    \cup { [kind |-> "images", n |-> n] : n \in 0..MaxDescr }

\* Text frames of the event stream, by the fields the code looks at.
\* json = FALSE: not JSON.  type = "none": no "type" key.  data = FALSE: no
\* "data" key.  pid/node = "none": key absent.  node = "null": JSON null.
\* images: "output" in data and "images" in data["output"].
Messages ==
    { [json |-> TRUE, type |-> "executing", data |-> TRUE, pid |-> p, node |-> n, images |-> FALSE]
        : p \in {"P", "Q", "none"}, n \in {"null", "7", "none"} }
    \cup
    { [json |-> TRUE, type |-> "executed", data |-> TRUE, pid |-> p, node |-> n, images |-> b]
        : p \in {"P", "Q"}, n \in {"1", "7", "none"}, b \in BOOLEAN }
    \cup
    { [json |-> TRUE, type |-> t, data |-> FALSE, pid |-> "none", node |-> "none", images |-> FALSE]
        : t \in {"executing", "executed", "progress", "none"} }
    \cup
    { [json |-> FALSE, type |-> "none", data |-> FALSE, pid |-> "none", node |-> "none", images |-> FALSE] }

\* how long one ws.recv() that returns something may have taken: it returns
\* at once, or just before the read timeout runs out
Delays == {0, RecvTimeout}

\* the value of endMsg while no frame has ended the monitoring
NoMsg == [json |-> FALSE, type |-> "nomsg", data |-> FALSE, pid |-> "none",
          node |-> "none", images |-> FALSE]

\* ------------------------------------------------------------ pure helpers
\* Python truthiness of the dict output_images: a dict is truthy when it has a key
Truthy(d) == d.has1

EmptyDict == [has1 |-> FALSE, imgs |-> <<>>]

\* number of images origin o contributed to the sequence s
RECURSIVE CountFrom(_, _)
CountFrom(s, o) ==
    IF s = <<>> THEN 0
    ELSE (IF Head(s)[1] = o THEN 1 ELSE 0) + CountFrom(Tail(s), o)

RECURSIVE Count(_, _)
Count(s, x) ==
    IF s = <<>> THEN 0
    ELSE (IF Head(s) = x THEN 1 ELSE 0) + Count(Tail(s), x)

\* faulty variant: the prompt id of an "executing" event is not compared
OnMessage_AnyPrompt(m) ==
    IF ~m.json THEN "continue"
    ELSE IF m.type = "none" THEN "raise"
    ELSE IF m.type = "executing" THEN
        IF ~m.data THEN "raise"
        ELSE IF m.node = "none" THEN "raise"
        ELSE IF m.node = "null" THEN "completed"
        ELSE "continue"
    ELSE IF m.type = "executed" THEN
        IF ~m.data THEN "raise"
        ELSE IF m.node # "none" /\ m.node = "1" /\ m.images THEN "completed"
        ELSE "continue"
    ELSE "continue"

\* faulty variant: an "executed" event of any node with an images payload completes
OnMessage_AnyNode(m) ==
    IF ~m.json THEN "continue"
    ELSE IF m.type = "none" THEN "raise"
    ELSE IF m.type = "executing" THEN
        IF ~m.data THEN "raise"
        ELSE IF m.pid # "none" /\ m.pid = "P" THEN
            IF m.node = "none" THEN "raise"
            ELSE IF m.node = "null" THEN "completed"
            ELSE "continue"
        ELSE "continue"
    ELSE IF m.type = "executed" THEN
        IF ~m.data THEN "raise"
        ELSE IF m.node # "none" /\ m.images THEN "completed"
        ELSE "continue"
    ELSE "continue"

\* The handling of one text frame, lines 2862-2903: "completed" is
\* workflow_completed = True; break, "continue" is the next iteration,
\* "raise" is an exception other than JSONDecodeError leaving the loop.
OnMessage(m) ==
    IF ~m.json THEN "continue"
    ELSE IF m.type = "none" THEN "raise"
    ELSE IF m.type = "executing" THEN
        IF ~m.data THEN "raise"
        ELSE IF m.pid # "none" /\ m.pid = prompt_id THEN
            IF m.node = "none" THEN "raise"
            ELSE IF m.node = "null" THEN "completed"
            ELSE "continue"
        ELSE "continue"
    ELSE IF m.type = "executed" THEN
        IF ~m.data THEN "raise"
        ELSE IF m.node # "none" /\ m.node = SaveNode /\ m.images THEN "completed"
        ELSE "continue"
    ELSE "continue"

\* line 2846: the deadline check at the top of every iteration
DeadlinePassed(t) == t > timeout_seconds

\* faulty variant: the fallback runs whatever the stream delivered
FallbackAlways(d) == TRUE

\* faulty variant: a descriptor whose fetch got an error status is fetched again
NextDescriptor_Retry(i, r) == IF r = "status" THEN i ELSE i + 1

\* line 2956: `for i, image_info in enumerate(images)`: after the fetch of
\* descriptor i + 1 with outcome r the loop is past that descriptor
NextDescriptor(i, r) == i + 1

\* line 2929: if not output_images
FallbackNeeded(d) == ~Truthy(d)

\* faulty variant: an artifact set is returned only when it is full
FinalReturn_AllOrNothing(d) ==
    IF Truthy(d) /\ Len(d.imgs) >= MaxDescr THEN "output_images" ELSE "None"

\* lines 2979-2985: the value execute_comfyui_workflow returns at its end
FinalReturn(d) == IF Truthy(d) THEN "output_images" ELSE "None"

\* line 2564: if output_images (the worker's test of the returned value)
WorkerAccepts(r, d) == r = "output_images" /\ Truthy(d)

\* ----------------------------------------------- configuration (plugin)
\* Python's None, and the values `not v` takes as false
None == "None"
Falsy(v) == v \in {None, ""}

\* A text value of config.json: t = "absent" (no such key), "none" (JSON
\* null) or "str" with s the pieces of the text: the characters of a key,
\* the origin and the path of a URL.
Text(s) == [t |-> "str", s |-> s]
NoneValue == [t |-> "none", s |-> <<>>]
AbsentValue == [t |-> "absent", s |-> <<>>]

\* str.startswith(prefix)
StartsWith(x, prefix) ==
    /\ Len(x.s) >= Len(prefix)
    /\ SubSeq(x.s, 1, Len(prefix)) = prefix

\* line 1271: "https://ai.api.nvidia.com"
HostedOrigin == <<"https://ai.api.nvidia.com">>
\* lines 56-58
BUILD_NVIDIA_COM_FLUX_HOSTED_NIM ==
    Text(<<"https://ai.api.nvidia.com", "/v1/genai/black-forest-labs/flux.1-dev">>)
\* a FLUX_NIM_URL of a local NIM server
LocalFluxUrl == Text(<<"http://localhost:8000">>)
\* line 1274: "YOUR_NVIDIA_API_KEY_HERE", as one piece
KeyPlaceholder == <<"YOUR_NVIDIA_API_KEY_HERE">>
\* line 1275: "nvapi-"
KeyPrefix == <<"n", "v", "a", "p", "i", "-">>
\* a key of the required form, and keys that lack it
GoodKey == Text(KeyPrefix \o <<"k">>)
ApiKeys ==
    {AbsentValue, NoneValue, Text(<<>>), Text(KeyPlaceholder),
     Text(<<"s", "k", "-", "k">>), Text(<<"n", "v", "a", "p", "i">>), GoodKey}

\* the module-level values, lines 50-64 ("A" is the default flux_output)
Defaults ==
    [GALLERY_DIRECTORY |-> None,
     NVIDIA_API_KEY |-> NoneValue,
     FLUX_NIM_URL |-> NoneValue,
     OUTPUT_DIRECTORY |-> "A",
     INVOKEAI_URL |-> "http://localhost:9090",
     FLUX_KONTEXT_NIM_URL |-> "http://localhost:8011",
     COMFYUI_URL |-> "http://localhost:8188",
     FLUX_KONTEXT_INFERENCE_BACKEND |-> "NIM"]

\* config.json as the process may find it: unreadable (missing, not JSON,
\* JSON that is no object, so that the first config.get raises), or an
\* object in which every key is "absent" or has a value
BaseFile ==
    [readable |-> TRUE,
     GALLERY_DIRECTORY |-> "G",
     NVIDIA_API_KEY |-> GoodKey,
     FLUX_NIM_URL |-> AbsentValue,
     OUTPUT_DIRECTORY |-> "absent",
     INVOKEAI_URL |-> "absent",
     FLUX_KONTEXT_NIM_URL |-> "absent",
     COMFYUI_URL |-> "absent",
     FLUX_KONTEXT_INFERENCE_BACKEND |-> "absent"]

Unreadable == [BaseFile EXCEPT !.readable = FALSE]

Selectors == {"absent", "NIM", "INVOKEAI", "COMFYUI", "comfyui", "BOGUS", None}

\* files that differ in the selector, in one URL, or in the gallery directory
HandlerFiles ==
    { [BaseFile EXCEPT !.FLUX_KONTEXT_INFERENCE_BACKEND = b] : b \in Selectors }
    \cup { [BaseFile EXCEPT !.FLUX_KONTEXT_INFERENCE_BACKEND = "NIM",
                            !.FLUX_KONTEXT_NIM_URL = u] : u \in {"", None} }
    \cup { [BaseFile EXCEPT !.FLUX_KONTEXT_INFERENCE_BACKEND = "INVOKEAI",
                            !.INVOKEAI_URL = u] : u \in {"", None} }
    \cup { [BaseFile EXCEPT !.FLUX_KONTEXT_INFERENCE_BACKEND = "COMFYUI",
                            !.COMFYUI_URL = u] : u \in {"", None} }
    \cup { [BaseFile EXCEPT !.GALLERY_DIRECTORY = "absent",
                            !.FLUX_KONTEXT_INFERENCE_BACKEND = b,
                            !.COMFYUI_URL = u]
             : b \in {"COMFYUI", "BOGUS"}, u \in {"absent", ""} }
    \cup { Unreadable }

\* files that differ in the output directory and in the selector
TaskFiles ==
    { [BaseFile EXCEPT !.FLUX_KONTEXT_INFERENCE_BACKEND = b,
                       !.OUTPUT_DIRECTORY = o]
        : b \in {"NIM", "COMFYUI"}, o \in {"A", "B", "absent"} }
    \cup { Unreadable }

\* files for the steps parameter: the defaults, and no gallery directory
StepsFiles == { BaseFile, [BaseFile EXCEPT !.GALLERY_DIRECTORY = ""] }

\* dict.get(key, default)
Get(v, d) == IF v = "absent" THEN d ELSE v
\* dict.get(key, default) of a text value
GetText(v, d) == IF v.t = "absent" THEN d ELSE v

\* faulty variant: the variables are cleared before the file is opened
load_config_ClearFirst(g, f) ==
    IF ~f.readable THEN [g EXCEPT !.GALLERY_DIRECTORY = None]
    ELSE [GALLERY_DIRECTORY |-> Get(f.GALLERY_DIRECTORY, None),
          NVIDIA_API_KEY |-> GetText(f.NVIDIA_API_KEY, NoneValue),
          FLUX_NIM_URL |-> GetText(f.FLUX_NIM_URL, BUILD_NVIDIA_COM_FLUX_HOSTED_NIM),
          OUTPUT_DIRECTORY |-> Get(f.OUTPUT_DIRECTORY, g.OUTPUT_DIRECTORY),
          INVOKEAI_URL |-> Get(f.INVOKEAI_URL, "http://localhost:9090"),
          FLUX_KONTEXT_NIM_URL |-> Get(f.FLUX_KONTEXT_NIM_URL, "http://localhost:8011"),
          COMFYUI_URL |-> Get(f.COMFYUI_URL, "http://localhost:8188"),
          FLUX_KONTEXT_INFERENCE_BACKEND |-> Get(f.FLUX_KONTEXT_INFERENCE_BACKEND, "NIM")]

\* load_config, lines 230-258: the globals after a load of file f
load_config(g, f) ==
    IF ~f.readable THEN g
    ELSE [GALLERY_DIRECTORY |-> Get(f.GALLERY_DIRECTORY, None),
          NVIDIA_API_KEY |-> GetText(f.NVIDIA_API_KEY, NoneValue),
          FLUX_NIM_URL |-> GetText(f.FLUX_NIM_URL, BUILD_NVIDIA_COM_FLUX_HOSTED_NIM),
          OUTPUT_DIRECTORY |-> Get(f.OUTPUT_DIRECTORY, g.OUTPUT_DIRECTORY),
          INVOKEAI_URL |-> Get(f.INVOKEAI_URL, "http://localhost:9090"),
          FLUX_KONTEXT_NIM_URL |-> Get(f.FLUX_KONTEXT_NIM_URL, "http://localhost:8011"),
          COMFYUI_URL |-> Get(f.COMFYUI_URL, "http://localhost:8188"),
          FLUX_KONTEXT_INFERENCE_BACKEND |-> Get(f.FLUX_KONTEXT_INFERENCE_BACKEND, "NIM")]

\* ------------------------------------------------- the steps parameter
\* A value of params["steps"]: t = "absent" (no key), "int" (v), "float"
\* (v in tenths: 305 is 30.5), "str" (lit: the text is an integer literal
\* and v its value), "none" (JSON null).
StepsValue(t, v, lit) == [t |-> t, v |-> v, lit |-> lit]

StepsParams ==
    { StepsValue("absent", 0, FALSE), StepsValue("none", 0, FALSE),
      StepsValue("str", 30, TRUE), StepsValue("str", 0, FALSE) }
    \cup { StepsValue("int", v, FALSE) : v \in {19, 20, 50, 51} }
    \cup { StepsValue("float", v, FALSE) : v \in {199, 305, 509} }

\* Python's int(x): [ok, v]; ok = FALSE is ValueError or TypeError
PyInt(x) ==
    CASE x.t = "int"   -> [ok |-> TRUE, v |-> x.v]
      [] x.t = "float" -> [ok |-> TRUE, v |-> x.v \div 10]
      [] x.t = "str"   -> [ok |-> x.lit, v |-> x.v]
      [] OTHER         -> [ok |-> FALSE, v |-> 0]

\* str.upper() on the selectors of the model
Upper(b) ==
    CASE b = "comfyui" -> "COMFYUI"
      [] b = "nim"     -> "NIM"
      [] OTHER         -> b

\* ----------------------------------------- generate_image_using_kontext
Failure(m) == [success |-> FALSE, message |-> m, start |-> "none", url |-> "", steps |-> 0]
Started(b, u, n) ==
    [success |-> TRUE, message |-> "generation request is in progress",
     start |-> b, url |-> u, steps |-> n]

\* faulty variant: the InvokeAI branch starts its task without looking at the URL
SelectBackend_NoUrlCheck(g, n) ==
    IF g.FLUX_KONTEXT_INFERENCE_BACKEND = None
    THEN Failure("Error in generate_image_using_kontext")
    ELSE LET backend == Upper(g.FLUX_KONTEXT_INFERENCE_BACKEND) IN
         CASE backend = "NIM" ->
                IF Falsy(g.FLUX_KONTEXT_NIM_URL)
                THEN Failure("NIM: FLUX_KONTEXT_NIM_URL is not configured")
                ELSE Started("NIM", g.FLUX_KONTEXT_NIM_URL, n)
           [] backend = "INVOKEAI" -> Started("INVOKEAI", g.INVOKEAI_URL, n)
           [] backend = "COMFYUI" ->
                IF Falsy(g.COMFYUI_URL)
                THEN Failure("COMFYUI: COMFYUI_URL is not configured")
                ELSE Started("COMFYUI", g.COMFYUI_URL, n)
           [] OTHER -> Failure("Invalid FLUX_KONTEXT_INFERENCE_BACKEND value")

\* lines 2060-2164: the backend selection, steps already validated as n
SelectBackend(g, n) ==
    IF g.FLUX_KONTEXT_INFERENCE_BACKEND = None
    THEN Failure("Error in generate_image_using_kontext")
    ELSE LET backend == Upper(g.FLUX_KONTEXT_INFERENCE_BACKEND) IN
         CASE backend = "NIM" ->
                IF Falsy(g.FLUX_KONTEXT_NIM_URL)
                THEN Failure("NIM: FLUX_KONTEXT_NIM_URL is not configured")
                ELSE Started("NIM", g.FLUX_KONTEXT_NIM_URL, n)
           [] backend = "INVOKEAI" ->
                IF Falsy(g.INVOKEAI_URL)
                THEN Failure("INVOKEAI: INVOKEAI_URL is not configured")
                ELSE Started("INVOKEAI", g.INVOKEAI_URL, n)
           [] backend = "COMFYUI" ->
                IF Falsy(g.COMFYUI_URL)
                THEN Failure("COMFYUI: COMFYUI_URL is not configured")
                ELSE Started("COMFYUI", g.COMFYUI_URL, n)
           [] OTHER -> Failure("Invalid FLUX_KONTEXT_INFERENCE_BACKEND value")

\* lines 2046-2058: the steps parameter read and validated
ValidateSteps(p) ==
    LET c == PyInt(IF p.t = "absent" THEN StepsValue("int", DefaultSteps, FALSE) ELSE p) IN
    IF ~c.ok THEN [ok |-> FALSE, v |-> 0, message |-> "Steps parameter must be an integer"]
    ELSE IF c.v < MinSteps \/ c.v > MaxSteps
         THEN [ok |-> FALSE, v |-> c.v, message |-> "Steps parameter must be between 20 and 50"]
         ELSE [ok |-> TRUE, v |-> c.v, message |-> ""]

\* lines 2039-2170: what the handler answers and starts, the globals being g
KontextOutcome(g, p) ==
    IF Falsy(g.GALLERY_DIRECTORY) THEN Failure("GALLERY_DIRECTORY not configured")
    ELSE LET s == ValidateSteps(p) IN
         IF ~s.ok THEN Failure(s.message)
         ELSE SelectBackend(g, s.v)

\* ------------------------------------------------- the workflow templates
\* The patch points of a workflow graph: prompt, image name, steps.  The
\* templates INVOKEAI_FLUX_KONTEXT_WORKFLOW (1405) and
\* COMFYUI_FLUX_KONTEXT_WORKFLOW (2428) hold the value 0 at the prompt and
\* at the image name, and their own step counts: "num_steps": 50 (1487)
\* and "steps": 20 (2472).
Workflow(p, img, n) == [prompt |-> p, image |-> img, steps |-> n]
InvokeTemplateSteps == 50
ComfyTemplateSteps == 20
Templates == [INVOKEAI |-> Workflow(0, 0, InvokeTemplateSteps),
              COMFYUI |-> Workflow(0, 0, ComfyTemplateSteps)]
\* modified_workflow of a worker that has not patched yet
NoWorkflow == Workflow(0, 0, 0)

\* faulty variant: modified_workflow is the template object itself
deepcopy_Alias(w) == [shared |-> TRUE, val |-> w]

\* copy.deepcopy(workflow_data), lines 1720 and 2685: a new object with the
\* same content; shared says whether writes reach workflow_data
deepcopy(w) == [shared |-> FALSE, val |-> w]

\* modify_workflow_for_kontext (1704-1738): the prompt and the image name
\* are written into the copy; the result is the copy and the template
modify_workflow_for_kontext(workflow_data, prompt, image_name) ==
    LET modified_workflow == deepcopy(workflow_data)
        patched == [modified_workflow.val EXCEPT !.prompt = prompt, !.image = image_name]
    IN  [result |-> patched,
         template |-> IF modified_workflow.shared THEN patched ELSE workflow_data]

\* modify_comfyui_workflow_for_kontext (2668-2759): prompt, steps and image
\* name are written into the copy
modify_comfyui_workflow_for_kontext(workflow_data, prompt, image_name, steps) ==
    LET modified_workflow == deepcopy(workflow_data)
        patched == [modified_workflow.val EXCEPT !.prompt = prompt, !.steps = steps,
                                                 !.image = image_name]
    IN  [result |-> patched,
         template |-> IF modified_workflow.shared THEN patched ELSE workflow_data]

\* the thread a handler starts: its arguments (lines 2076, 2108, 2140) and
\* its position; startDir is OUTPUT_DIRECTORY at the start (history field);
\* carried is the step count of the payload or workflow the thread has
\* sent to its backend, 0 before that
NewTask(o, g) ==
    [backend |-> o.start, pc |-> "start", gallery |-> g.GALLERY_DIRECTORY,
     url |-> o.url, steps |-> o.steps, startDir |-> g.OUTPUT_DIRECTORY,
     n |-> 0, i |-> 0, wrote |-> <<>>, wallpapers |-> 0, net |-> 0,
     workflow |-> NoWorkflow, temp |-> "none", carried |-> 0]

NoCall == [called |-> FALSE, steps |-> StepsValue("absent", 0, FALSE),
           success |-> FALSE, message |-> "", started |-> FALSE]

\* ------------------------------------------------------- clock and files
\* datetime.now().strftime("%Y%m%d_%H%M%S") at tick c
Timestamp(c) == c \div TicksPerSecond

\* faulty variant: the file name carries no timestamp
FileName_NoTimestamp(backend, c, i) ==
    IF backend = "NIM"
    THEN [prefix |-> "flux_kontext_nim", ts |-> 0, idx |-> -1]
    ELSE [prefix |-> "comfyui_flux_kontext", ts |-> 0, idx |-> i]

\* lines 1971-1972 and 2571-2572: the name of an output file
FileName(backend, c, i) ==
    IF backend = "NIM"
    THEN [prefix |-> "flux_kontext_nim", ts |-> Timestamp(c), idx |-> -1]
    ELSE [prefix |-> "comfyui_flux_kontext", ts |-> Timestamp(c), idx |-> i]

\* os.path.join(OUTPUT_DIRECTORY, filename)
FilePath(dir, name) == [dir |-> dir, name |-> name]

\* open(file_path, "wb") and write: the file is created or replaced
WriteFile(d, path, owner) ==
    { e \in d : e.path # path } \cup { [path |-> path, owner |-> owner] }

\* "X" is a directory path that cannot be created or written (OSError)
Unusable == "X"
\* os.makedirs(dir) and open(os.path.join(dir, name), "wb") can succeed
Writable(dir) == dir # None /\ dir # Unusable

\* line 1215-1216: the name of an output file of generate_image_worker
FluxFileName(c) == [prefix |-> "flux_image", ts |-> Timestamp(c), idx |-> -1]

\* ------------------------------------------------------ the dispatch loop
\* a message of a response: its text and the name it cites, if it cites one
Msg(text, arg) == [text |-> text, arg |-> arg]
\* lines 429-441 and 444-456; null = TRUE is the value None of `response`
generate_failure_response(m) == [null |-> FALSE, success |-> FALSE, message |-> m]
generate_success_response(m) == [null |-> FALSE, success |-> TRUE, message |-> m]
NullResponse == [null |-> TRUE, success |-> FALSE, message |-> Msg("", "")]
\* line 348 and 352: f"{ERROR_MESSAGE} Malformed input."
MalformedResponse == generate_failure_response(Msg("Plugin Error! Malformed input.", ""))
\* line 343: f"{ERROR_MESSAGE} Unknown command: {cmd}"
UnknownResponse(c) == generate_failure_response(Msg("Plugin Error! Unknown command: ", c))

\* the keys of the dict `commands` (lines 284-303) that the model dispatches
commands ==
    {"initialize", "shutdown", "generate_image", "generate_image_using_kontext",
     "comfyui_status"}
INITIALIZE_COMMAND == "initialize"
SHUTDOWN_COMMAND == "shutdown"
\* the generation commands: their handlers start a background thread
GenerationCommands == {"generate_image", "generate_image_using_kontext"}

\* One tool_call: func and params are "absent" (no such key) or a value.
\* Frames with several calls draw them from ShortCalls.
SingleCalls ==
    [func : commands \cup {"absent", "bogus"}, params : {"P"}]
        \cup {[func |-> "comfyui_status", params |-> "absent"]}
ShortCalls == [func : {"absent", "bogus", "initialize", "shutdown"}, params : {"P"}]
RECURSIVE SeqsUpTo(_, _)
SeqsUpTo(S, n) ==
    IF n = 0 THEN {<<>>}
    ELSE LET R == SeqsUpTo(S, n - 1) IN
         R \cup {Append(r, x) : r \in {q \in R : Len(q) = n - 1}, x \in S}

\* What read_command returns (lines 365-404): None when the read or the
\* decoding failed, else the decoded frame.  has_calls: the frame has the
\* key tool_calls; messages and system_info are "absent" or a value.
ReadFailure == [ok |-> FALSE, has_calls |-> FALSE, tool_calls |-> <<>>,
                messages |-> "absent", system_info |-> "absent"]
Frame(has, cs, m, si0) ==
    [ok |-> TRUE, has_calls |-> has, tool_calls |-> cs, messages |-> m, system_info |-> si0]
Inputs ==
    {ReadFailure, Frame(FALSE, <<>>, "M", "S")}
        \cup {Frame(TRUE, <<c>>, "M", "S") : c \in SingleCalls}
        \cup {Frame(TRUE, <<c>>, "absent", "absent") :
                c \in {x \in SingleCalls : x.func = "comfyui_status"}}
        \cup {Frame(TRUE, cs, "M", "S") : cs \in SeqsUpTo(ShortCalls, MaxCalls)}
NoInput == ReadFailure

\* dict.get(key, None) and `input[KEY] if KEY in input else None`
OrNone(v) == IF v = "absent" THEN None ELSE v
\* lines 327-339: the arguments the target handler is called with
HandlerArgs(frame, call) ==
    <<OrNone(call.params), OrNone(frame.messages), OrNone(frame.system_info)>>
\* an entry of the record of handler calls
Invocation(h, args) == [handler |-> h, args |-> args]

\* faulty variant: a failed read is taken for a frame
ReadFailed_Never(inp) == FALSE

\* line 310: `if input is None: continue`
ReadFailed(inp) == ~inp.ok
\* lines 307 and 357: the loop goes on unless cmd is the shutdown command
LoopEnds(c) == c = SHUTDOWN_COMMAND
\* line 323: the commands called without the initialize pre-step
CalledPlain(c) == c = INITIALIZE_COMMAND \/ c = SHUTDOWN_COMMAND

\* validate_output_directory, lines 475-496: "raise" is the TypeError of
\* os.makedirs(None), which the handlers for OSError and PermissionError
\* do not catch
validate_output_directory(g) ==
    IF g.OUTPUT_DIRECTORY = None THEN "raise"
    ELSE IF g.OUTPUT_DIRECTORY = Unusable THEN "False"
    ELSE "True"
\* execute_initialize_command, lines 499-531: raised, or the response
execute_initialize_command(g) ==
    LET v == validate_output_directory(g) IN
    IF v = "raise" THEN [raised |-> TRUE, response |-> NullResponse]
    ELSE [raised |-> FALSE,
          response |->
            IF v = "False" \/ Falsy(g.GALLERY_DIRECTORY)
            THEN generate_success_response(
                     Msg("initialize success. Plugin initialized with warnings", ""))
            ELSE generate_success_response(Msg("initialize success.", ""))]
\* execute_shutdown_command, lines 534-548
execute_shutdown_command == generate_success_response(Msg("shutdown success.", ""))

\* faulty variant: the key is not asked to start with "nvapi-"
ApiKeyCheck_NoPrefix(g) ==
    IF g.FLUX_NIM_URL.t # "str" THEN "raise"
    ELSE IF ~StartsWith(g.FLUX_NIM_URL, HostedOrigin) THEN "pass"
    ELSE IF g.NVIDIA_API_KEY.t # "str" \/ g.NVIDIA_API_KEY.s = <<>> THEN "fail"
    ELSE IF g.NVIDIA_API_KEY.s = KeyPlaceholder THEN "fail"
    ELSE "pass"

\* lines 1268-1278: the API key check of generate_image.  "raise": the URL
\* is None and None.startswith raises; "fail": the failure response of
\* 1276-1278; "pass": the handler goes on
ApiKeyCheck(g) ==
    IF g.FLUX_NIM_URL.t # "str" THEN "raise"
    ELSE IF ~StartsWith(g.FLUX_NIM_URL, HostedOrigin) THEN "pass"
    ELSE IF g.NVIDIA_API_KEY.t # "str" \/ g.NVIDIA_API_KEY.s = <<>> THEN "fail"
    ELSE IF g.NVIDIA_API_KEY.s = KeyPlaceholder THEN "fail"
    ELSE IF ~StartsWith(g.NVIDIA_API_KEY, KeyPrefix) THEN "fail"
    ELSE "pass"

\* generate_image, lines 1262-1309, the globals being g after its
\* load_config.  The thread gets OUTPUT_DIRECTORY as its output_dir argument.
GenerateImageOutcome(g) ==
    IF ApiKeyCheck(g) = "fail" THEN Failure("NVIDIA API key not configured or invalid")
    ELSE IF ApiKeyCheck(g) = "raise" THEN Failure("Error in generate_image")
    ELSE IF g.OUTPUT_DIRECTORY = None THEN Failure("Error in generate_image")
    ELSE IF g.OUTPUT_DIRECTORY = Unusable THEN Failure("Failed to create output directory")
    ELSE Started("FLUX", "flux_url", 50)

\* config.json as the dispatched handlers may find it
DispatchFiles ==
    {[BaseFile EXCEPT !.OUTPUT_DIRECTORY = d] : d \in {"A", None, Unusable}}

DispatchIdle ==
    /\ mpc = "recv"
    /\ cmd = ""
    /\ input = NoInput
    /\ ci = 1
    /\ response = NullResponse
    /\ out = <<>>
    /\ invoked = <<>>
    /\ reads = 0

\* ---------------------------------------------------------- read_command
Min(a, b) == IF a < b THEN a ELSE b

\* str.encode("utf-8") over the model's alphabet: "e2" is a character of
\* two bytes, a lead byte and a continuation byte; every other character
\* is one byte ("0" is NUL)
RECURSIVE Encode(_)
Encode(text) ==
    IF text = <<>> THEN <<>>
    ELSE (IF Head(text) = "e2" THEN <<"e2:lead", "e2:cont">> ELSE <<Head(text)>>)
            \o Encode(Tail(text))

\* bytes.decode("utf-8"): ok = FALSE is UnicodeDecodeError
RECURSIVE Decode(_)
Decode(bs) ==
    IF bs = <<>> THEN [ok |-> TRUE, text |-> <<>>]
    ELSE IF Head(bs) = "e2:cont" THEN [ok |-> FALSE, text |-> <<>>]
    ELSE IF Head(bs) = "e2:lead"
         THEN IF Len(bs) >= 2 /\ bs[2] = "e2:cont"
              THEN LET r == Decode(Tail(Tail(bs))) IN
                   [ok |-> r.ok, text |-> <<"e2">> \o r.text]
              ELSE [ok |-> FALSE, text |-> <<>>]
    ELSE LET r == Decode(Tail(bs)) IN [ok |-> r.ok, text |-> <<Head(bs)>> \o r.text]

\* line 379: bytes(BUFFER_SIZE), into which ReadFile has put the bytes bs
RECURSIVE Zeros(_)
Zeros(n) == IF n <= 0 THEN <<>> ELSE <<"0">> \o Zeros(n - 1)
Filled(bs) == bs \o Zeros(BUFFER_SIZE - Len(bs))

\* lines 389 and 396: buffer.decode("utf-8")[: message_bytes.value]: the
\* whole buffer is decoded and the first n characters are taken
Slice(buf, n) ==
    LET d == Decode(buf) IN
    [ok |-> d.ok, text |-> SubSeq(d.text, 1, Min(n, Len(d.text)))]

\* json.loads over the model's frames: an object is a pair of braces
\* around characters "a" and "e2"; ok = FALSE is JSONDecodeError
Loads(text) ==
    IF /\ Len(text) >= 2
       /\ text[1] = "{" /\ text[Len(text)] = "}"
       /\ \A i \in 2..(Len(text) - 1) : text[i] \in {"a", "e2"}
    THEN [ok |-> TRUE, value |-> SubSeq(text, 2, Len(text) - 1)]
    ELSE [ok |-> FALSE, value |-> <<>>]

\* what read_command returns: None, or the decoded command
NoCommand == [ok |-> FALSE, value |-> <<>>]
Pending == [ok |-> FALSE, value |-> <<"pending">>]

\* ------------------------------------------------- the image normalizer
\* A float is [m, e], the number m * 2^e with an m of SignificandBits bits.
\* RoundRatio(num, den) is the float nearest to num / den, ties to the even
\* significand: what "/" and "*" of two floats yield for the exact result
\* num / den.
Pow2(n) == 2 ^ n
Exponents == (0 - (SignificandBits + MaxSide + 1))..(MaxSide + 1)
RoundRatio(num, den) ==
    LET Num(x) == IF x < 0 THEN num * Pow2(0 - x) ELSE num
        Den(x) == IF x < 0 THEN den ELSE den * Pow2(x)
        e == CHOOSE x \in Exponents :
                /\ Pow2(SignificandBits - 1) * Den(x) <= Num(x)
                /\ Num(x) < Pow2(SignificandBits) * Den(x)
        q == Num(e) \div Den(e)
        r == Num(e) % Den(e)
        m == IF 2 * r > Den(e) \/ (2 * r = Den(e) /\ q % 2 = 1) THEN q + 1 ELSE q
    IN  IF m = Pow2(SignificandBits)
        THEN [m |-> Pow2(SignificandBits - 1), e |-> e + 1]
        ELSE [m |-> m, e |-> e]

\* n * f for an int n and a float f
Times(n, f) ==
    IF f.e < 0 THEN RoundRatio(n * f.m, Pow2(0 - f.e))
    ELSE RoundRatio(n * f.m * Pow2(f.e), 1)

\* max(a, b) of two floats
FloatMax(a, b) ==
    LET lo == Min(a.e, b.e) IN
    IF a.m * Pow2(a.e - lo) < b.m * Pow2(b.e - lo) THEN b ELSE a

\* int(f) of a positive float
Trunc(f) == IF f.e < 0 THEN f.m \div Pow2(0 - f.e) ELSE f.m * Pow2(f.e)

Max(a, b) == IF a < b THEN b ELSE a

\* lines 129-146 of prepare_image_for_kontext, the same as lines 191-208 of
\* prepare_image_for_comfyui: the resize to cover the target and the
\* centre crop.  The result is the size of cropped_img and the crop origins.
prepare_image_for_kontext(img_width, img_height, target_width, target_height) ==
    LET scale_w == RoundRatio(target_width, img_width)
        scale_h == RoundRatio(target_height, img_height)
        scale == FloatMax(scale_w, scale_h)
        new_width == Trunc(Times(img_width, scale))
        new_height == Trunc(Times(img_height, scale))
        left == Max(0, (new_width - target_width) \div 2)
        top == Max(0, (new_height - target_height) \div 2)
        right == Min(new_width, left + target_width)
        bottom == Min(new_height, top + target_height)
    IN  [width |-> right - left, height |-> bottom - top,
         left |-> left, top |-> top]

\* no image has been normalized
NoCrop == [width |-> 0, height |-> 0, left |-> 0, top |-> 0]

NormalizeIdle ==
    /\ source_size = <<0, 0>>
    /\ target_size = <<0, 0>>
    /\ cropped_img = NoCrop
    /\ config = Unreadable

ReadIdle ==
    /\ rpc = "idle"
    /\ written = <<>>
    /\ pipe = <<>>
    /\ buffer = <<>>
    /\ message_bytes = 0
    /\ chunks = <<>>
    /\ command = Pending

PluginIdle ==
    /\ ReadIdle
    /\ NormalizeIdle
    /\ globals = Defaults
    /\ tasks = <<>>
    /\ clock = 0
    /\ disk = {}
    /\ last = NoCall
    /\ templates = Templates
    /\ DispatchIdle

\* ------------------------------------------------------------------- Init
InitMonitor ==
    /\ pc = "queue"
    /\ elapsed = 0
    /\ workflow_completed = FALSE
    /\ output_images = EmptyDict
    /\ history \in HistoryAnswers
    /\ dl = 0
    /\ retval = "pending"
    /\ endCause = "none"
    /\ endMsg = NoMsg
    /\ calls = <<>>
    /\ files = <<>>
    /\ si = 0
    /\ workerLog = "none"
    /\ PluginIdle

\* --------------------------------------------- execute_comfyui_workflow
\* lines 2776-2802: POST /prompt.  ok = a 2xx answer carrying a prompt_id;
\* otherwise the call raised, the status was an error or the id was missing,
\* and the function returns None through its handlers (2987-3012) or 2800.
QueuePrompt(ok) ==
    /\ pc = "queue"
    /\ calls' = Append(calls, "enqueue")
    /\ IF ok
       THEN /\ pc' = "status"
            /\ UNCHANGED <<retval, endCause>>
       ELSE /\ pc' = "worker"
            /\ retval' = "None"
            /\ endCause' = "enqueue_error"
    /\ UNCHANGED <<pvars, dvars, rvars, nvars, cvars, endMsg, elapsed, workflow_completed, output_images, history, dl,
                   files, si, workerLog>>

\* lines 2809-2832: GET /prompt; every outcome is logged and swallowed
StatusCheck ==
    /\ pc = "status"
    /\ calls' = Append(calls, "status")
    /\ pc' = "connect"
    /\ UNCHANGED <<pvars, dvars, rvars, nvars, cvars, endMsg, elapsed, workflow_completed, output_images, history, dl,
                   retval, endCause, files, si, workerLog>>

\* lines 2834-2841: ws.connect(ws_url) stands before the try/finally of the
\* loop; when it raises, the handlers at 2987-3012 return None.
WsConnect(ok) ==
    /\ pc = "connect"
    /\ calls' = Append(calls, "connect")
    /\ IF ok
       THEN /\ pc' = "loop"
            /\ elapsed' = 0
            /\ UNCHANGED <<retval, endCause>>
       ELSE /\ pc' = "worker"
            /\ retval' = "None"
            /\ endCause' = "connect_error"
            /\ UNCHANGED elapsed
    /\ UNCHANGED <<pvars, dvars, rvars, nvars, cvars, endMsg, workflow_completed, output_images, history, dl,
                   files, si, workerLog>>

\* faulty variant: at the deadline the function goes straight to its return
DeadlineBreak_Return ==
    /\ pc = "loop"
    /\ DeadlinePassed(elapsed)
    /\ pc' = "final"
    /\ endCause' = "deadline"
    /\ UNCHANGED <<pvars, dvars, rvars, nvars, cvars, endMsg, elapsed, workflow_completed, output_images, history, dl,
                   retval, calls, files, si, workerLog>>

\* faulty variant: the deadline check logs its warning and the loop goes on
DeadlineBreak_Continue ==
    /\ pc = "loop"
    /\ DeadlinePassed(elapsed)
    /\ UNCHANGED vars

\* lines 2846-2850: the deadline has passed: break
DeadlineBreak ==
    /\ pc = "loop"
    /\ DeadlinePassed(elapsed)
    /\ pc' = "check"
    /\ endCause' = "deadline"
    /\ UNCHANGED <<pvars, dvars, rvars, nvars, cvars, endMsg, elapsed, workflow_completed, output_images, history, dl,
                   retval, calls, files, si, workerLog>>

\* lines 2852-2857: ws.recv() raised WebSocketTimeoutException after 5 s
RecvTimedOut ==
    /\ pc = "loop"
    /\ ~DeadlinePassed(elapsed)
    /\ elapsed' = elapsed + RecvTimeout
    /\ UNCHANGED <<pvars, dvars, rvars, nvars, cvars, endMsg, pc, workflow_completed, output_images, history, dl,
                   retval, endCause, calls, files, si, workerLog>>

\* lines 2858-2860: ws.recv() raised something else (a closed connection):
\* logged, and the loop goes on
RecvError(d) ==
    /\ pc = "loop"
    /\ ~DeadlinePassed(elapsed)
    /\ elapsed' = elapsed + d
    /\ UNCHANGED <<pvars, dvars, rvars, nvars, cvars, endMsg, pc, workflow_completed, output_images, history, dl,
                   retval, endCause, calls, files, si, workerLog>>

\* lines 2905-2915: a binary frame is appended to output_images["1"]
RecvBinary(d) ==
    /\ pc = "loop"
    /\ ~DeadlinePassed(elapsed)
    /\ Len(output_images.imgs) < MaxFrames
    /\ elapsed' = elapsed + d
    /\ output_images' = [has1 |-> TRUE,
                         imgs |-> Append(output_images.imgs,
                                         <<"ws", Len(output_images.imgs) + 1>>)]
    /\ UNCHANGED <<pvars, dvars, rvars, nvars, cvars, endMsg, pc, workflow_completed, history, dl,
                   retval, endCause, calls, files, si, workerLog>>

\* lines 2862-2903 and the finally at 2917: a text frame
RecvText(m, d) ==
    /\ pc = "loop"
    /\ ~DeadlinePassed(elapsed)
    /\ elapsed' = elapsed + d
    /\ LET o == OnMessage(m) IN
       /\ pc' = CASE o = "completed" -> "check"
                  [] o = "raise"     -> "worker"
                  [] OTHER           -> "loop"
       /\ workflow_completed' = (o = "completed")
       /\ retval' = IF o = "raise" THEN "None" ELSE retval
       /\ endCause' = CASE o = "completed" -> m.type
                        [] o = "raise"     -> "handler_error"
                        [] OTHER           -> endCause
       /\ endMsg' = IF o = "continue" THEN endMsg ELSE m
    /\ UNCHANGED <<pvars, dvars, rvars, nvars, cvars, output_images, history, dl, calls, files, si, workerLog>>

\* line 2929, false branch: images came over the stream, no fallback
SkipFallback ==
    /\ pc = "check"
    /\ ~FallbackNeeded(output_images)
    /\ pc' = "final"
    /\ UNCHANGED <<pvars, dvars, rvars, nvars, cvars, endMsg, elapsed, workflow_completed, output_images, history, dl,
                   retval, endCause, calls, files, si, workerLog>>

\* lines 2929-2954 and 2972-2977: GET /history
HistoryGet ==
    /\ pc = "check"
    /\ FallbackNeeded(output_images)
    /\ calls' = Append(calls, "history")
    /\ IF history.kind = "images"
       THEN /\ output_images' = [has1 |-> TRUE,
                                    imgs |-> IF output_images.has1
                                             THEN output_images.imgs ELSE <<>>]
            /\ pc' = IF history.n = 0 THEN "final" ELSE "download"
       ELSE /\ pc' = "final"
            /\ UNCHANGED output_images
    /\ UNCHANGED <<pvars, dvars, rvars, nvars, cvars, endMsg, elapsed, workflow_completed, history, dl,
                   retval, endCause, files, si, workerLog>>

\* lines 2956-2971: GET /view of descriptor dl+1.  r = "ok": status 200;
\* "status": another status, the image is skipped; "raise": the call
\* raised, which the handler at 2976 catches outside the for loop.
FetchImage(r) ==
    /\ pc = "download"
    /\ dl < history.n
    /\ calls' = Append(calls, "fetch")
    /\ dl' = NextDescriptor(dl, r)
    /\ output_images' = IF r = "ok"
                        THEN [output_images EXCEPT
                                !.imgs = Append(@, <<"hist", dl + 1>>)]
                        ELSE output_images
    /\ pc' = IF r = "raise" \/ dl' = history.n THEN "final" ELSE "download"
    /\ UNCHANGED <<pvars, dvars, rvars, nvars, cvars, endMsg, elapsed, workflow_completed, history,
                   retval, endCause, files, si, workerLog>>

\* lines 2979-2985
Return ==
    /\ pc = "final"
    /\ retval' = FinalReturn(output_images)
    /\ pc' = "worker"
    /\ UNCHANGED <<pvars, dvars, rvars, nvars, cvars, endMsg, elapsed, workflow_completed, output_images, history, dl,
                   endCause, calls, files, si, workerLog>>

\* --------------------------------- generate_image_using_comfyui_worker
\* lines 2562-2566 and 2590-2591
WorkerCheck ==
    /\ pc = "worker"
    /\ IF WorkerAccepts(retval, output_images)
       THEN /\ workerLog' = "success"
            /\ pc' = IF Len(output_images.imgs) = 0 THEN "done" ELSE "save"
       ELSE /\ workerLog' = "failure"
            /\ pc' = "done"
    /\ UNCHANGED <<pvars, dvars, rvars, nvars, cvars, endMsg, elapsed, workflow_completed, output_images, history, dl,
                   retval, endCause, calls, files, si>>

\* faulty variant: the wallpaper is set before the file is written
SaveImage_WallpaperFirst(ok) ==
    /\ pc = "save"
    /\ si < Len(output_images.imgs)
    /\ IF ok
       THEN /\ files' = Append(files, output_images.imgs[si + 1])
            /\ calls' = Append(Append(calls, "wallpaper"), "save")
            /\ pc' = "wallpaper"
       ELSE /\ pc' = "done"
            /\ UNCHANGED <<files, calls>>
    /\ UNCHANGED <<pvars, dvars, rvars, nvars, cvars, endMsg, elapsed, workflow_completed, output_images, history, dl,
                   retval, endCause, si, workerLog>>

\* lines 2569-2579: image i is written; ok = FALSE: open/write raised and
\* the handler at 2613 ends the worker
SaveImage(ok) ==
    /\ pc = "save"
    /\ si < Len(output_images.imgs)
    /\ IF ok
       THEN /\ files' = Append(files, output_images.imgs[si + 1])
            /\ calls' = Append(calls, "save")
            /\ pc' = "wallpaper"
       ELSE /\ pc' = "done"
            /\ UNCHANGED <<files, calls>>
    /\ UNCHANGED <<pvars, dvars, rvars, nvars, cvars, endMsg, elapsed, workflow_completed, output_images, history, dl,
                   retval, endCause, si, workerLog>>

\* lines 2581-2589: set_desktop_background(file_path), either outcome logged
SetWallpaper ==
    /\ pc = "wallpaper"
    /\ calls' = Append(calls, "wallpaper")
    /\ si' = si + 1
    /\ pc' = IF si + 1 = Len(output_images.imgs) THEN "done" ELSE "save"
    /\ UNCHANGED <<pvars, dvars, rvars, nvars, cvars, endMsg, elapsed, workflow_completed, output_images, history, dl,
                   retval, endCause, files, workerLog>>

NextMonitor ==
    \/ \E ok \in BOOLEAN : QueuePrompt(ok)
    \/ StatusCheck
    \/ \E ok \in BOOLEAN : WsConnect(ok)
    \/ DeadlineBreak
    \/ RecvTimedOut
    \/ \E d \in Delays : RecvError(d)
    \/ \E d \in Delays : RecvBinary(d)
    \/ \E m \in Messages, d \in Delays : RecvText(m, d)
    \/ SkipFallback
    \/ HistoryGet
    \/ \E r \in {"ok", "status", "raise"} : FetchImage(r)
    \/ Return
    \/ WorkerCheck
    \/ \E ok \in BOOLEAN : SaveImage(ok)
    \/ SetWallpaper

SpecMonitor == InitMonitor /\ [][NextMonitor]_vars

\* SpecMonitorLive: the session on a running thread.  The thread is
\* scheduled (it is the only one of the session), and datetime.now()
\* advances while the loop runs: a stream cannot deliver frames for ever
\* within one and the same second.
ClockAdvances == NextMonitor /\ elapsed' > elapsed

SpecMonitorLive ==
    /\ InitMonitor
    /\ [][NextMonitor]_vars
    /\ WF_vars(NextMonitor)
    /\ WF_vars(ClockAdvances)

\* ========================================================= plugin: actions
MonitorIdle ==
    /\ pc = "queue"
    /\ elapsed = 0
    /\ workflow_completed = FALSE
    /\ output_images = EmptyDict
    /\ history = [kind |-> "absent", n |-> 0]
    /\ dl = 0
    /\ retval = "pending"
    /\ endCause = "none"
    /\ endMsg = NoMsg
    /\ calls = <<>>
    /\ files = <<>>
    /\ si = 0
    /\ workerLog = "none"

\* the state when the dispatch loop starts: main() has called load_config()
\* once (line 272) on whatever file it found
InitPlugin(Files) ==
    /\ MonitorIdle
    /\ ReadIdle
    /\ NormalizeIdle
    /\ globals \in { load_config(Defaults, f) : f \in Files }
    /\ tasks = <<>>
    /\ clock = 0
    /\ disk = {}
    /\ last = NoCall
    /\ templates = Templates
    /\ DispatchIdle

TaskIds == 1..Len(tasks)

\* remote calls made so far by all background tasks
RECURSIVE NetCalls(_)
NetCalls(ts) == IF ts = <<>> THEN 0 ELSE Head(ts).net + NetCalls(Tail(ts))

\* faulty variant: the backend is selected from the configuration as it was
\* before the reload
generate_image_using_kontext_Stale(f, p) ==
    LET g == load_config(globals, f)
        o == KontextOutcome(globals, p)
    IN  /\ (o.start # "none" => Len(tasks) < MaxTasks)
        /\ globals' = g
        /\ tasks' = IF o.start = "none" THEN tasks ELSE Append(tasks, NewTask(o, g))
        /\ last' = [called |-> TRUE, steps |-> p, success |-> o.success,
                    message |-> o.message, started |-> Len(tasks') > Len(tasks)]
        /\ UNCHANGED <<mvars, rvars, nvars, cvars, dvars, templates, clock, disk>>

\* lines 2033-2170: the handler; f is config.json as load_config finds it,
\* p the steps parameter of the call
generate_image_using_kontext(f, p) ==
    LET g == load_config(globals, f)
        o == KontextOutcome(g, p)
    IN  /\ (o.start # "none" => Len(tasks) < MaxTasks)
        /\ globals' = g
        /\ tasks' = IF o.start = "none" THEN tasks ELSE Append(tasks, NewTask(o, g))
        /\ last' = [called |-> TRUE, steps |-> p, success |-> o.success,
                    message |-> o.message, started |-> Len(tasks') > Len(tasks)]
        /\ UNCHANGED <<mvars, rvars, nvars, cvars, dvars, templates, clock, disk>>

\* lines 3030-3128: comfyui_status, a later command; it reloads the
\* configuration and answers from two GET calls of its own
comfyui_status(f) ==
    /\ globals' = load_config(globals, f)
    /\ UNCHANGED <<mvars, rvars, nvars, cvars, dvars, templates, tasks, clock, disk, last>>

\* the wall clock advances
Tick ==
    /\ clock < MaxClock
    /\ clock' = clock + 1
    /\ UNCHANGED <<mvars, rvars, nvars, cvars, dvars, templates, globals, tasks, disk, last>>

\* --- generate_image_using_kontext_nim_worker
\* lines 1874-1919: makedirs(OUTPUT_DIRECTORY), the newest screenshot found
\* and prepared; ok = FALSE: one of them failed and the worker returns
NimWorkerStart(t, ok) ==
    /\ tasks[t].backend = "NIM" /\ tasks[t].pc = "start"
    /\ ok => Writable(globals.OUTPUT_DIRECTORY)
    /\ tasks' = [tasks EXCEPT ![t].pc = IF ok THEN "infer" ELSE "done"]
    /\ UNCHANGED <<mvars, rvars, nvars, cvars, dvars, templates, globals, clock, disk, last>>

\* lines 1922-1930: the payload of the request, by its step count
NimPayload(steps) == [steps |-> steps]

\* lines 1921-1966 and 1988-2014: POST /v1/infer; r = "artifact": a 2xx
\* answer with an artifact, "empty": without one, "error": the call failed
NimWorkerInfer(t, r) ==
    /\ tasks[t].backend = "NIM" /\ tasks[t].pc = "infer"
    /\ tasks' = [tasks EXCEPT ![t].pc = IF r = "artifact" THEN "save" ELSE "done",
                              ![t].n = IF r = "artifact" THEN 1 ELSE 0,
                              ![t].carried = NimPayload(tasks[t].steps).steps,
                              ![t].net = @ + 1]
    /\ UNCHANGED <<mvars, rvars, nvars, cvars, dvars, templates, globals, clock, disk, last>>

\* lines 1968-1987: the file is named, written into OUTPUT_DIRECTORY and set
\* as wallpaper; ok = FALSE: open or write raised
NimWorkerSave(t, ok) ==
    /\ tasks[t].backend = "NIM" /\ tasks[t].pc = "save"
    /\ ok => Writable(globals.OUTPUT_DIRECTORY)
    /\ LET path == FilePath(globals.OUTPUT_DIRECTORY, FileName("NIM", clock, 0)) IN
       IF ok
       THEN /\ disk' = WriteFile(disk, path, <<t, 0>>)
            /\ tasks' = [tasks EXCEPT ![t].pc = "done",
                                      ![t].i = 1,
                                      ![t].wrote = Append(@, [path |-> path, at |-> clock]),
                                      ![t].wallpapers = @ + 1]
       ELSE /\ tasks' = [tasks EXCEPT ![t].pc = "done"]
            /\ UNCHANGED disk
    /\ UNCHANGED <<mvars, rvars, nvars, cvars, dvars, templates, globals, clock, last>>

\* --- generate_image_using_comfyui_worker
\* lines 2495-2540 and 169-227: makedirs(OUTPUT_DIRECTORY), the newest
\* screenshot is found and prepare_image_for_comfyui writes it, resized,
\* to a temporary file.  r = "ok": the path of the file is returned;
\* "fail": a step before the creation of the file failed; "unsaved": the
\* file was created (212-216) and cropped_img.save raised (219), so that
\* None is returned and nobody holds the path.  temp is the temporary
\* file of the thread: "none", "held", "lost", "deleted" or "left".
ComfyWorkerStart(t, r) ==
    /\ tasks[t].backend = "COMFYUI" /\ tasks[t].pc = "start"
    /\ r \in {"ok", "unsaved"} => Writable(globals.OUTPUT_DIRECTORY)
    /\ tasks' = [tasks EXCEPT ![t].pc = IF r = "ok" THEN "upload" ELSE "done",
                              ![t].temp = CASE r = "ok"      -> "held"
                                            [] r = "unsaved" -> "lost"
                                            [] OTHER         -> "none"]
    /\ UNCHANGED <<mvars, rvars, nvars, cvars, dvars, templates, globals, clock, disk, last>>

\* lines 2542-2558 and 2627-2665: POST /upload/image, then the workflow is
\* patched with the prompt, the image name and the steps of the request
\* (both stand for the task: t); ok = FALSE: no image name came back
ComfyWorkerUpload(t, ok) ==
    LET m == modify_comfyui_workflow_for_kontext(templates.COMFYUI, t, t, tasks[t].steps) IN
    /\ tasks[t].backend = "COMFYUI" /\ tasks[t].pc = "upload"
    /\ tasks' = [tasks EXCEPT ![t].pc = IF ok THEN "execute" ELSE "cleanup",
                              ![t].workflow = IF ok THEN m.result ELSE @,
                              ![t].net = @ + 1]
    /\ templates' = IF ok THEN [templates EXCEPT !.COMFYUI = m.template] ELSE templates
    /\ UNCHANGED <<mvars, rvars, nvars, cvars, dvars, globals, clock, disk, last>>

\* lines 2560-2566 and 2590-2591: execute_comfyui_workflow returned; k < 0
\* is None, k >= 0 a dict holding k images (SpecMonitor has the session)
ComfyWorkerExecute(t, k) ==
    /\ tasks[t].backend = "COMFYUI" /\ tasks[t].pc = "execute"
    /\ tasks' = [tasks EXCEPT ![t].pc = IF k > 0 THEN "save" ELSE "cleanup",
                              ![t].n = IF k > 0 THEN k ELSE 0,
                              ![t].carried = tasks[t].workflow.steps,
                              ![t].net = @ + 1]
    /\ UNCHANGED <<mvars, rvars, nvars, cvars, dvars, templates, globals, clock, disk, last>>

\* lines 2568-2589: image i is named, written into OUTPUT_DIRECTORY and set
\* as wallpaper; ok = FALSE: open or write raised
ComfyWorkerSave(t, ok) ==
    /\ tasks[t].backend = "COMFYUI" /\ tasks[t].pc = "save"
    /\ ok => Writable(globals.OUTPUT_DIRECTORY)
    /\ LET i == tasks[t].i
           path == FilePath(globals.OUTPUT_DIRECTORY, FileName("COMFYUI", clock, i)) IN
       IF ok
       THEN /\ disk' = WriteFile(disk, path, <<t, i>>)
            /\ tasks' = [tasks EXCEPT ![t].pc = IF i + 1 = tasks[t].n THEN "cleanup" ELSE "save",
                                      ![t].i = i + 1,
                                      ![t].wrote = Append(@, [path |-> path, at |-> clock]),
                                      ![t].wallpapers = @ + 1]
       ELSE /\ tasks' = [tasks EXCEPT ![t].pc = "cleanup"]
            /\ UNCHANGED disk
    /\ UNCHANGED <<mvars, rvars, nvars, cvars, dvars, templates, globals, clock, last>>

\* lines 2615-2624: the finally clause, reached from every return and
\* handler after resized_image_path got a path: os.unlink of the
\* temporary file; ok = FALSE: unlink raised, which is logged
ComfyWorkerCleanup(t, ok) ==
    /\ tasks[t].backend = "COMFYUI" /\ tasks[t].pc = "cleanup"
    /\ tasks' = [tasks EXCEPT ![t].pc = "done",
                              ![t].temp = IF ok THEN "deleted" ELSE "left"]
    /\ UNCHANGED <<mvars, rvars, nvars, cvars, dvars, templates, globals, clock, disk, last>>

\* --- generate_image_using_kontext_worker (InvokeAI)
\* lines 1807-1833: the newest screenshot is looked up
InvokeWorkerStart(t, ok) ==
    /\ tasks[t].backend = "INVOKEAI" /\ tasks[t].pc = "start"
    /\ tasks' = [tasks EXCEPT ![t].pc = IF ok THEN "upload" ELSE "done"]
    /\ UNCHANGED <<mvars, rvars, nvars, cvars, dvars, templates, globals, clock, disk, last>>

\* lines 1835-1853 and 1351-1401: POST /api/v1/images/upload, then the
\* workflow is patched
InvokeWorkerUpload(t, ok) ==
    LET m == modify_workflow_for_kontext(templates.INVOKEAI, t, t) IN
    /\ tasks[t].backend = "INVOKEAI" /\ tasks[t].pc = "upload"
    /\ tasks' = [tasks EXCEPT ![t].pc = IF ok THEN "submit" ELSE "done",
                              ![t].workflow = IF ok THEN m.result ELSE @,
                              ![t].net = @ + 1]
    /\ templates' = IF ok THEN [templates EXCEPT !.INVOKEAI = m.template] ELSE templates
    /\ UNCHANGED <<mvars, rvars, nvars, cvars, dvars, globals, clock, disk, last>>

\* lines 1855-1864: the workflow is posted to the queue; nothing is awaited
InvokeWorkerSubmit(t) ==
    /\ tasks[t].backend = "INVOKEAI" /\ tasks[t].pc = "submit"
    /\ tasks' = [tasks EXCEPT ![t].pc = "done",
                              ![t].carried = tasks[t].workflow.steps,
                              ![t].net = @ + 1]
    /\ UNCHANGED <<mvars, rvars, nvars, cvars, dvars, templates, globals, clock, disk, last>>

\* the steps of the three workers
NimWorker ==
    \/ \E t \in TaskIds, ok \in BOOLEAN : NimWorkerStart(t, ok)
    \/ \E t \in TaskIds, r \in {"artifact", "empty", "error"} : NimWorkerInfer(t, r)
    \/ \E t \in TaskIds, ok \in BOOLEAN : NimWorkerSave(t, ok)

ComfyWorker ==
    \/ \E t \in TaskIds, r \in {"ok", "fail", "unsaved"} : ComfyWorkerStart(t, r)
    \/ \E t \in TaskIds, ok \in BOOLEAN : ComfyWorkerUpload(t, ok)
    \/ \E t \in TaskIds, k \in -1..MaxImages : ComfyWorkerExecute(t, k)
    \/ \E t \in TaskIds, ok \in BOOLEAN : ComfyWorkerSave(t, ok)
    \/ \E t \in TaskIds, ok \in BOOLEAN : ComfyWorkerCleanup(t, ok)

InvokeWorker ==
    \/ \E t \in TaskIds, ok \in BOOLEAN : InvokeWorkerStart(t, ok)
    \/ \E t \in TaskIds, ok \in BOOLEAN : InvokeWorkerUpload(t, ok)
    \/ \E t \in TaskIds : InvokeWorkerSubmit(t)

\* --- generate_image_worker
\* lines 1161-1205 and 1234-1241: POST to the infer URL; r = "artifact": a
\* 2xx answer with an artifact, "empty": without one, "error": the call
\* failed
FluxWorkerInfer(t, r) ==
    /\ tasks[t].backend = "FLUX" /\ tasks[t].pc = "start"
    /\ tasks' = [tasks EXCEPT ![t].pc = IF r = "artifact" THEN "save" ELSE "done",
                              ![t].n = IF r = "artifact" THEN 1 ELSE 0,
                              ![t].net = @ + 1]
    /\ UNCHANGED <<mvars, rvars, nvars, cvars, dvars, templates, globals, clock, disk, last>>

\* faulty variant: the wallpaper is set whether or not the file was written
FluxWorkerSave_WallpaperAlways(t, ok) ==
    /\ tasks[t].backend = "FLUX" /\ tasks[t].pc = "save"
    /\ LET path == FilePath(tasks[t].startDir, FluxFileName(clock)) IN
       IF ok
       THEN /\ disk' = WriteFile(disk, path, <<t, 0>>)
            /\ tasks' = [tasks EXCEPT ![t].pc = "done",
                                      ![t].i = 1,
                                      ![t].wrote = Append(@, [path |-> path, at |-> clock]),
                                      ![t].wallpapers = @ + 1]
       ELSE /\ tasks' = [tasks EXCEPT ![t].pc = "done", ![t].wallpapers = @ + 1]
            /\ UNCHANGED disk
    /\ UNCHANGED <<mvars, rvars, nvars, cvars, dvars, templates, globals, clock, last>>

\* lines 1207-1231: the file is named, written into the output_dir the
\* thread was started with and set as wallpaper; ok = FALSE: open or
\* write raised
FluxWorkerSave(t, ok) ==
    /\ tasks[t].backend = "FLUX" /\ tasks[t].pc = "save"
    /\ LET path == FilePath(tasks[t].startDir, FluxFileName(clock)) IN
       IF ok
       THEN /\ disk' = WriteFile(disk, path, <<t, 0>>)
            /\ tasks' = [tasks EXCEPT ![t].pc = "done",
                                      ![t].i = 1,
                                      ![t].wrote = Append(@, [path |-> path, at |-> clock]),
                                      ![t].wallpapers = @ + 1]
       ELSE /\ tasks' = [tasks EXCEPT ![t].pc = "done"]
            /\ UNCHANGED disk
    /\ UNCHANGED <<mvars, rvars, nvars, cvars, dvars, templates, globals, clock, last>>

FluxWorker ==
    \/ \E t \in TaskIds, r \in {"artifact", "empty", "error"} : FluxWorkerInfer(t, r)
    \/ \E t \in TaskIds, ok \in BOOLEAN : FluxWorkerSave(t, ok)

\* lines 1262-1309: generate_image called on its own; f is config.json
\* as its load_config finds it
generate_image(f) ==
    LET g == load_config(globals, f)
        o == GenerateImageOutcome(g)
    IN  /\ (o.start # "none" => Len(tasks) < MaxTasks)
        /\ globals' = g
        /\ tasks' = IF o.start = "none" THEN tasks ELSE Append(tasks, NewTask(o, g))
        /\ UNCHANGED <<mvars, rvars, nvars, cvars, dvars, templates, clock, disk, last>>

\* ------------------------------------------------------------------ main
\* the tool_call the loop at line 318 is at
CurrentCall == input.tool_calls[ci]
AtCall == mpc = "route" /\ input.has_calls /\ ci <= Len(input.tool_calls)

\* lines 322-326: what runs before the handler of command c, the globals
\* being g: nothing, or execute_initialize_command()
PreStep(c, g) ==
    IF CalledPlain(c) THEN [raised |-> FALSE, calls |-> <<>>]
    ELSE [raised |-> execute_initialize_command(g).raised,
          calls |-> <<Invocation(INITIALIZE_COMMAND, <<>>)>>]

\* faulty variant: the response is written once the threads have ended
WriteReady_Join(ts) == \A t \in 1..Len(ts) : ts[t].pc = "done"

\* write_response has no precondition: main() holds no reference to the
\* threads the handlers started and joins none (lines 354-355)
WriteReady(ts) == TRUE

\* lines 308-312: response = None; input = read_command(); a failed read
\* goes back to the loop condition
ReadCommand(inp) ==
    /\ mpc = "recv"
    /\ reads < MaxReads
    /\ reads' = reads + 1
    /\ response' = NullResponse
    /\ input' = inp
    /\ ci' = 1
    /\ invoked' = <<>>
    /\ mpc' = IF ReadFailed(inp)
              THEN (IF LoopEnds(cmd) THEN "stopped" ELSE "recv")
              ELSE "route"
    /\ UNCHANGED <<mvars, rvars, nvars, cvars, pvars, cmd, out>>

\* lines 350-352: the frame has no tool_calls
RouteMalformed ==
    /\ mpc = "route"
    /\ ~input.has_calls
    /\ response' = MalformedResponse
    /\ mpc' = "write"
    /\ UNCHANGED <<mvars, rvars, nvars, cvars, pvars, cmd, input, ci, out, invoked, reads>>

\* line 318: the for loop over tool_calls is exhausted
CallsDone ==
    /\ mpc = "route"
    /\ input.has_calls
    /\ ci > Len(input.tool_calls)
    /\ mpc' = "write"
    /\ UNCHANGED <<mvars, rvars, nvars, cvars, pvars, cmd, input, ci, response, out, invoked, reads>>

\* lines 345-349: the call has no func
CallMalformed ==
    /\ AtCall
    /\ CurrentCall.func = "absent"
    /\ response' = MalformedResponse
    /\ ci' = ci + 1
    /\ UNCHANGED <<mvars, rvars, nvars, cvars, pvars, mpc, cmd, input, out, invoked, reads>>

\* lines 320 and 340-344: func is no key of commands
CallUnknown ==
    /\ AtCall
    /\ CurrentCall.func # "absent"
    /\ CurrentCall.func \notin commands
    /\ cmd' = CurrentCall.func
    /\ response' = UnknownResponse(cmd')
    /\ ci' = ci + 1
    /\ UNCHANGED <<mvars, rvars, nvars, cvars, pvars, mpc, input, out, invoked, reads>>

\* The common part of a call of a known command c: cmd is set, the
\* pre-step runs, and when it raises the exception leaves main().
\* Otherwise the handler is called, answers r and leaves the globals g
\* and the threads ts.
CallKnown(c, args, r, g, ts) ==
    /\ AtCall
    /\ CurrentCall.func = c
    /\ cmd' = c
    /\ LET pre == PreStep(c, globals) IN
       IF pre.raised
       THEN /\ mpc' = "crashed"
            /\ invoked' = invoked \o pre.calls
            /\ UNCHANGED <<response, ci, globals, tasks>>
       ELSE /\ invoked' = (invoked \o pre.calls) \o <<Invocation(c, args)>>
            /\ response' = r
            /\ ci' = ci + 1
            /\ globals' = g
            /\ tasks' = ts
            /\ UNCHANGED mpc
    /\ UNCHANGED <<mvars, rvars, nvars, cvars, clock, disk, last, templates, input, out, reads>>

\* line 324 with cmd = "initialize"
CallInitialize ==
    LET r == execute_initialize_command(globals) IN
    /\ AtCall
    /\ CurrentCall.func = INITIALIZE_COMMAND
    /\ cmd' = INITIALIZE_COMMAND
    /\ invoked' = Append(invoked, Invocation(INITIALIZE_COMMAND, <<>>))
    /\ IF r.raised
       THEN /\ mpc' = "crashed"
            /\ UNCHANGED <<response, ci>>
       ELSE /\ response' = r.response
            /\ ci' = ci + 1
            /\ UNCHANGED mpc
    /\ UNCHANGED <<mvars, rvars, nvars, cvars, pvars, input, out, reads>>

\* line 324 with cmd = "shutdown"
CallShutdown ==
    CallKnown(SHUTDOWN_COMMAND, <<>>, execute_shutdown_command, globals, tasks)

\* lines 326-339 with cmd = "comfyui_status": the handler reloads the
\* configuration from f; ok is the outcome of its GET calls
CallComfyuiStatus(f, ok) ==
    LET g == load_config(globals, f) IN
    CallKnown("comfyui_status", HandlerArgs(input, CurrentCall),
              IF ok /\ ~Falsy(g.COMFYUI_URL)
              THEN generate_success_response(Msg("ComfyUI server is running", ""))
              ELSE generate_failure_response(Msg("ComfyUI status check failed", "")),
              g, tasks)

\* lines 326-339 with cmd = "generate_image"
CallGenerateImage(f) ==
    LET g == load_config(globals, f)
        o == GenerateImageOutcome(g)
    IN  /\ (o.start # "none" => Len(tasks) < MaxTasks)
        /\ CallKnown("generate_image", HandlerArgs(input, CurrentCall),
                     IF o.success THEN generate_success_response(Msg(o.message, ""))
                     ELSE generate_failure_response(Msg(o.message, "")),
                     g,
                     IF o.start = "none" THEN tasks ELSE Append(tasks, NewTask(o, g)))

\* lines 326-339 with cmd = "generate_image_using_kontext"; the params of
\* the model's calls carry no steps
CallKontext(f) ==
    LET g == load_config(globals, f)
        o == KontextOutcome(g, StepsValue("absent", 0, FALSE))
    IN  /\ (o.start # "none" => Len(tasks) < MaxTasks)
        /\ CallKnown("generate_image_using_kontext", HandlerArgs(input, CurrentCall),
                     IF o.success THEN generate_success_response(Msg(o.message, ""))
                     ELSE generate_failure_response(Msg(o.message, "")),
                     g,
                     IF o.start = "none" THEN tasks ELSE Append(tasks, NewTask(o, g)))

\* lines 354-355: write_response(response)
WriteResponse ==
    /\ mpc = "write"
    /\ WriteReady(tasks)
    /\ out' = Append(out, [frame |-> reads, response |-> response])
    /\ mpc' = "check"
    /\ UNCHANGED <<mvars, rvars, nvars, cvars, pvars, cmd, input, ci, response, invoked, reads>>

\* faulty variant: the loop ends once the threads have ended
ShutdownCheck_Join ==
    /\ mpc = "check"
    /\ LoopEnds(cmd) => \A t \in TaskIds : tasks[t].pc = "done"
    /\ mpc' = IF LoopEnds(cmd) THEN "stopped" ELSE "recv"
    /\ UNCHANGED <<mvars, rvars, nvars, cvars, pvars, cmd, input, ci, response, out, invoked, reads>>

\* lines 357-359 and the loop condition at 307
ShutdownCheck ==
    /\ mpc = "check"
    /\ mpc' = IF LoopEnds(cmd) THEN "stopped" ELSE "recv"
    /\ UNCHANGED <<mvars, rvars, nvars, cvars, pvars, cmd, input, ci, response, out, invoked, reads>>

NoSteps == StepsValue("absent", 0, FALSE)

\* SpecSteps: the handler under every value of the steps parameter
NextSteps ==
    \/ \E f \in StepsFiles, p \in StepsParams : generate_image_using_kontext(f, p)
    \/ NimWorker

SpecSteps == InitPlugin(StepsFiles) /\ [][NextSteps]_vars

\* SpecSelect: the handler under every backend selector and URL setting
NextSelect ==
    \/ \E f \in HandlerFiles : generate_image_using_kontext(f, NoSteps)
    \/ NimWorker
    \/ ComfyWorker
    \/ InvokeWorker

SpecSelect == InitPlugin(HandlerFiles) /\ [][NextSelect]_vars

\* SpecTasks: concurrent tasks that save files, under reloads of the output
\* directory by later commands and a running clock
NextTasks ==
    \/ \E f \in TaskFiles : generate_image_using_kontext(f, NoSteps)
    \/ \E f \in TaskFiles : comfyui_status(f)
    \/ Tick
    \/ NimWorker
    \/ ComfyWorker

SpecTasks == InitPlugin(TaskFiles) /\ [][NextTasks]_vars

\* SpecDispatch: the dispatch loop of main() with the threads its
\* generation handlers start
NextDispatch ==
    \/ \E inp \in Inputs : ReadCommand(inp)
    \/ RouteMalformed
    \/ CallsDone
    \/ CallMalformed
    \/ CallUnknown
    \/ CallInitialize
    \/ CallShutdown
    \/ \E f \in DispatchFiles, ok \in BOOLEAN : CallComfyuiStatus(f, ok)
    \/ \E f \in DispatchFiles : CallGenerateImage(f)
    \/ \E f \in DispatchFiles : CallKontext(f)
    \/ WriteResponse
    \/ ShutdownCheck
    \/ NimWorker
    \/ FluxWorker

SpecDispatch == InitPlugin(DispatchFiles) /\ [][NextDispatch]_vars

\* SpecRequest: the remote calls of one kind of generation request at a
\* time: either one streaming-graph session (NextMonitor), or the threads
\* of the other requests.  The two parts have no variable in common, so a
\* state of the one is reached whatever the other does.
RequestFiles ==
    {[BaseFile EXCEPT !.FLUX_KONTEXT_INFERENCE_BACKEND = b] :
        b \in {"NIM", "INVOKEAI", "COMFYUI"}}
NoThreads == tasks = <<>> /\ globals = Defaults
NoSession == pc = "queue" /\ calls = <<>>
NextRequest ==
    \/ NoThreads /\ NextMonitor
    \/ NoSession /\ \E f \in RequestFiles : generate_image_using_kontext(f, NoSteps)
    \/ NoSession /\ \E f \in RequestFiles : generate_image(f)
    \/ NoSession /\ NimWorker
    \/ NoSession /\ ComfyWorker
    \/ NoSession /\ InvokeWorker
    \/ NoSession /\ FluxWorker

SpecRequest == InitMonitor /\ [][NextRequest]_vars

\* SpecInfer: generate_image commands dispatched by main() under every
\* API key and endpoint URL of config.json, with the threads they start
InferFiles ==
    {[BaseFile EXCEPT !.NVIDIA_API_KEY = k, !.FLUX_NIM_URL = u] :
        k \in ApiKeys, u \in {AbsentValue, NoneValue, LocalFluxUrl}}
        \cup {Unreadable}
InferInputs == {Frame(TRUE, <<[func |-> "generate_image", params |-> "P"]>>, "M", "S")}
NextInfer ==
    \/ \E inp \in InferInputs : ReadCommand(inp)
    \/ CallsDone
    \/ \E f \in InferFiles : CallGenerateImage(f)
    \/ WriteResponse
    \/ ShutdownCheck
    \/ FluxWorker

SpecInfer == InitPlugin({BaseFile}) /\ [][NextInfer]_vars

\* lines 1388-1393 and 2653-2657: the upload is a requests.post without a
\* timeout; when the server accepts the connection and never answers, the
\* call never returns and the thread stays in it
UploadNeverAnswered(t) ==
    /\ tasks[t].backend \in {"COMFYUI", "INVOKEAI"} /\ tasks[t].pc = "upload"
    /\ tasks' = [tasks EXCEPT ![t].pc = "blocked", ![t].net = @ + 1]
    /\ UNCHANGED <<mvars, rvars, nvars, cvars, dvars, templates, globals, clock, disk, last>>

\* SpecLive: the threads of the generation handlers under a scheduler that
\* lets every thread run, and remote services that may never answer: a
\* call with a timeout then fails (the outcome ok = FALSE or "error" of
\* its action), a call without one never returns
NextLive ==
    \/ \E f \in RequestFiles : generate_image_using_kontext(f, NoSteps)
    \/ \E f \in RequestFiles : generate_image(f)
    \/ NimWorker
    \/ ComfyWorker
    \/ InvokeWorker
    \/ FluxWorker
    \/ \E t \in TaskIds : UploadNeverAnswered(t)

SpecLive ==
    /\ InitPlugin(RequestFiles)
    /\ [][NextLive]_vars
    /\ WF_vars(NimWorker)
    /\ WF_vars(ComfyWorker)
    /\ WF_vars(InvokeWorker)
    /\ WF_vars(FluxWorker)

\* ------------------------------------------------------- read_command
\* the frames the host writes: objects of up to MaxInner characters, and a
\* text that is no JSON
Frames ==
    {(<<"{">> \o inner) \o <<"}">> : inner \in SeqsUpTo({"a", "e2"}, MaxInner)}
        \cup {<<"a">>}

InitRead ==
    /\ MonitorIdle
    /\ NormalizeIdle
    /\ globals = Defaults
    /\ tasks = <<>>
    /\ clock = 0
    /\ disk = {}
    /\ last = NoCall
    /\ templates = Templates
    /\ DispatchIdle
    /\ rpc = "read"
    /\ written \in Frames
    /\ pipe = Encode(written)
    /\ buffer = <<>>
    /\ message_bytes = 0
    /\ chunks = <<>>
    /\ command = Pending

\* lines 376-394: one turn of the loop.  ReadFile takes up to BUFFER_SIZE
\* bytes from the pipe; success = FALSE: it failed and None is returned.
\* The chunk is decoded (389): a UnicodeDecodeError is caught at 402.
ReadFile(success) ==
    /\ rpc = "read"
    /\ IF ~success
       THEN /\ command' = NoCommand
            /\ rpc' = "returned"
            /\ UNCHANGED <<pipe, buffer, message_bytes, chunks>>
       ELSE LET n == Min(BUFFER_SIZE, Len(pipe))
                buf == Filled(SubSeq(pipe, 1, n))
                chunk == Slice(buf, n)
            IN  /\ pipe' = SubSeq(pipe, n + 1, Len(pipe))
                /\ buffer' = buf
                /\ message_bytes' = n
                /\ IF ~chunk.ok
                   THEN /\ command' = NoCommand
                        /\ rpc' = "returned"
                        /\ UNCHANGED chunks
                   ELSE /\ chunks' = Append(chunks, chunk.text)
                        /\ rpc' = IF n < BUFFER_SIZE THEN "decode" ELSE "read"
                        /\ UNCHANGED command
    /\ UNCHANGED <<mvars, pvars, dvars, nvars, cvars, written>>

\* lines 396-397 and 399-401: the last buffer is decoded again and parsed
ReturnCommand ==
    /\ rpc = "decode"
    /\ LET text == Slice(buffer, message_bytes) IN
       command' = IF text.ok /\ Loads(text.text).ok
                  THEN Loads(text.text) ELSE NoCommand
    /\ rpc' = "returned"
    /\ UNCHANGED <<mvars, pvars, dvars, nvars, cvars, written, pipe, buffer, message_bytes, chunks>>

NextRead ==
    \/ \E success \in BOOLEAN : ReadFile(success)
    \/ ReturnCommand

SpecRead == InitRead /\ [][NextRead]_vars

\* ------------------------------------------------- the image normalizer
\* every source image and every target rectangle with sides in 1..MaxSide
InitNormalize ==
    /\ MonitorIdle
    /\ ReadIdle
    /\ globals = Defaults
    /\ tasks = <<>>
    /\ clock = 0
    /\ disk = {}
    /\ last = NoCall
    /\ templates = Templates
    /\ DispatchIdle
    /\ source_size \in (1..MaxSide) \X (1..MaxSide)
    /\ target_size \in (1..MaxSide) \X (1..MaxSide)
    /\ cropped_img = NoCrop
    /\ config = Unreadable

\* lines 126-146 and 188-208: img.size is read, the image is resized and
\* cropped
PrepareImage ==
    /\ cropped_img = NoCrop
    /\ cropped_img' = prepare_image_for_kontext(source_size[1], source_size[2],
                                                target_size[1], target_size[2])
    /\ UNCHANGED <<mvars, pvars, dvars, rvars, cvars, source_size, target_size>>

NextNormalize == PrepareImage

SpecNormalize == InitNormalize /\ [][NextNormalize]_vars

\* ------------------------------------------------------------ load_config
\* the files of SpecConfig: objects that have or lack the keys, with
\* values that differ from the defaults, and the unreadable file
ConfigFiles ==
    { [BaseFile EXCEPT !.GALLERY_DIRECTORY = gd,
                       !.OUTPUT_DIRECTORY = o,
                       !.COMFYUI_URL = u,
                       !.FLUX_NIM_URL = n,
                       !.FLUX_KONTEXT_INFERENCE_BACKEND = b]
        : gd \in {"absent", "G"}, o \in {"absent", "A", "B", None}, u \in {"absent", ""},
          n \in {AbsentValue, LocalFluxUrl}, b \in {"absent", "COMFYUI"} }
    \cup { Unreadable }

\* the module-level values (lines 50-64), before any load
InitConfig ==
    /\ MonitorIdle
    /\ PluginIdle

\* lines 230-258: one call of load_config(), config.json being f
LoadConfig(f) ==
    /\ globals' = load_config(globals, f)
    /\ config' = f
    /\ UNCHANGED <<mvars, dvars, rvars, nvars, tasks, clock, disk, last, templates>>

NextConfig == \E f \in ConfigFiles : LoadConfig(f)

SpecConfig == InitConfig /\ [][NextConfig]_vars

\* ===================================================== claims, SpecMonitor
StreamImages == CountFrom(output_images.imgs, "ws")
HistoryImages == CountFrom(output_images.imgs, "hist")
HistoryQueries == Count(calls, "history")
\* the fallback decision at line 2929 has been taken
PastCheck == pc \in {"download", "final", "worker", "save", "wallpaper", "done"}

\* C1 (as stated): once an "executing" event with a null node and the
\* session's prompt id has ended the monitoring, the session completes with
\* an artifact set and the history endpoint is never queried.
C1_NoFallbackAfterExecuting ==
    endCause = "executing" =>
        /\ HistoryQueries = 0
        /\ retval \in {"pending", "output_images"}

\* C1 (amended): an "executing" event ends the monitoring as completed only
\* when it carries the session's prompt id and a null node, and it does so
\* within the deadline plus one read timeout; after it the history endpoint
\* is queried exactly once when no binary frame was accumulated and not at
\* all when one was, in which case exactly the accumulated frames are
\* returned.
C1_ExecutingCompletes ==
    endCause = "executing" =>
        /\ workflow_completed
        /\ endMsg.pid = prompt_id /\ endMsg.node = "null"
        /\ elapsed <= timeout_seconds + RecvTimeout
        /\ (StreamImages > 0 => HistoryQueries = 0 /\ HistoryImages = 0)
        /\ (StreamImages > 0 /\ retval # "pending" => retval = "output_images")
        /\ (StreamImages = 0 /\ PastCheck => HistoryQueries = 1)

C1_Witness ==
    /\ endCause = "executing"
    /\ pc = "done"
    /\ HistoryQueries = 1
    /\ retval = "output_images"

\* C2: whenever the event-stream path ended without an artifact (deadline,
\* failure to open the stream, error while handling an event) and the
\* session is reported as failed, the history fallback was attempted
\* exactly once.
C2_FallbackBeforeFailure ==
    (retval = "None" /\ endCause # "enqueue_error") => HistoryQueries = 1

\* C3: when the history lists image descriptors for the save-output node and
\* none of them could be retrieved, execute_comfyui_workflow yields no
\* artifact set, the worker saves no file and logs failure.
C3_NoneRetrievedFails ==
    (/\ pc = "done"
     /\ HistoryQueries = 1
     /\ history.kind = "images" /\ history.n > 0
     /\ dl > 0
     /\ output_images.imgs = <<>>)
    => (retval = "None" /\ workerLog = "failure" /\ files = <<>>)

\* C4: when the stream was opened and delivered no completing event and no
\* binary frame, the history holds N descriptors and no fetch failed, the
\* session ends with exactly N retrieved images, after the deadline.
C4_TimeoutThenHistory ==
    (/\ pc = "done"
     /\ endCause \notin {"enqueue_error", "connect_error", "executing", "executed"}
     /\ StreamImages = 0
     /\ history.kind = "images"
     /\ Len(output_images.imgs) = dl)
    => (/\ retval = "output_images"
        /\ Len(output_images.imgs) = history.n
        /\ elapsed > timeout_seconds)

\* C5 (as stated): once an "executed" event of the save-output node with an
\* images payload has ended the monitoring, the history endpoint is not
\* queried.
C5_NoFallbackAfterExecuted ==
    endCause = "executed" => HistoryQueries = 0

\* C5 (amended): an "executed" event ends the monitoring as completed only
\* when it is for node "1" and carries an images payload; the payload itself
\* adds nothing to the artifact set: the set returned holds the binary
\* frames accumulated before the event, and when there are none the history
\* endpoint is queried exactly once and only it can supply images.
C5_ExecutedCompletes ==
    endCause = "executed" =>
        /\ workflow_completed
        /\ endMsg.node = SaveNode /\ endMsg.images
        /\ (pc = "check" => Len(output_images.imgs) = StreamImages)
        /\ (HistoryQueries = 0 => HistoryImages = 0)
        /\ (StreamImages > 0 => HistoryQueries = 0)
        /\ (StreamImages = 0 /\ PastCheck => HistoryQueries = 1)
        /\ (retval = "output_images" /\ HistoryQueries = 0
              => Len(output_images.imgs) = StreamImages /\ StreamImages > 0)

C5_Witness ==
    /\ endCause = "executed"
    /\ pc = "done"
    /\ HistoryQueries = 1
    /\ HistoryImages = Len(files)
    /\ Len(files) > 0

\* C6: the artifact set never mixes stream images with fallback images; once
\* the stream path has accumulated an image the history is not queried, and
\* the history is queried at most once.
C6_OneArtifactSet ==
    /\ StreamImages = 0 \/ HistoryImages = 0
    /\ (StreamImages > 0 => HistoryQueries = 0)
    /\ HistoryQueries <= 1
    /\ (retval = "output_images" /\ StreamImages > 0
          => Len(output_images.imgs) = StreamImages)

C6_Witness ==
    /\ pc = "done"
    /\ retval = "output_images"
    /\ StreamImages = MaxFrames
    /\ HistoryQueries = 0
    /\ history.kind = "images" /\ history.n > 0

\* ======================================================= claims, SpecSteps
\* the value is no integer: null, a text that is no integer literal, or a
\* number with a fractional part
NotInteger(p) ==
    \/ p.t = "none"
    \/ p.t = "str" /\ ~p.lit
    \/ p.t = "float" /\ p.v % 10 # 0

\* the numeric value lies outside [20, 50]
OutOfRange(p) ==
    \/ p.t = "int" /\ (p.v < MinSteps \/ p.v > MaxSteps)
    \/ p.t = "float" /\ (p.v < MinSteps * 10 \/ p.v > MaxSteps * 10)

\* C7: a steps parameter that is outside [20,50] or is not an integer yields
\* a failure response, and the call starts no background task (the remote
\* calls are all made by background tasks).
C7_BadStepsRejected ==
    (last.called /\ (NotInteger(last.steps) \/ OutOfRange(last.steps)))
        => (~last.success /\ ~last.started)

\* ====================================================== claims, SpecSelect
\* the selector of g names a backend whose URL is empty, or no known backend
KnownBackends == {"NIM", "INVOKEAI", "COMFYUI"}
SelectorIsText(g) == g.FLUX_KONTEXT_INFERENCE_BACKEND # None
SelectedUrl(g) ==
    LET b == Upper(g.FLUX_KONTEXT_INFERENCE_BACKEND) IN
    CASE b = "NIM"      -> g.FLUX_KONTEXT_NIM_URL
      [] b = "INVOKEAI" -> g.INVOKEAI_URL
      [] b = "COMFYUI"  -> g.COMFYUI_URL
      [] OTHER          -> None
BadSelection(g) ==
    \/ ~SelectorIsText(g)
    \/ Upper(g.FLUX_KONTEXT_INFERENCE_BACKEND) \notin KnownBackends
    \/ Falsy(SelectedUrl(g))
SelectionMessages ==
    { "NIM: FLUX_KONTEXT_NIM_URL is not configured",
      "INVOKEAI: INVOKEAI_URL is not configured",
      "COMFYUI: COMFYUI_URL is not configured",
      "Invalid FLUX_KONTEXT_INFERENCE_BACKEND value" }

\* C8 (as stated): when the selector names a backend with an empty URL or no
\* known backend, the response is a failure that names the missing URL or
\* the invalid selector, and no task is started.
C8_BadSelectionNamed ==
    (last.called /\ BadSelection(globals))
        => (~last.success /\ ~last.started /\ last.message \in SelectionMessages)

\* C8 (amended): in that case the response is always a failure and no task
\* is started, so no upload is made; the message names the missing URL of
\* the selected backend, or the invalid selector, when the gallery directory
\* is configured, the steps are valid and the selector is a text; otherwise
\* it names the gallery directory, or is the handler's generic error.
C8_BadSelectionFails ==
    (last.called /\ BadSelection(globals)) =>
        /\ ~last.success
        /\ ~last.started
        /\ (Falsy(globals.GALLERY_DIRECTORY)
              => last.message = "GALLERY_DIRECTORY not configured")
        /\ (~Falsy(globals.GALLERY_DIRECTORY) /\ ~SelectorIsText(globals)
              => last.message = "Error in generate_image_using_kontext")
        /\ (~Falsy(globals.GALLERY_DIRECTORY) /\ SelectorIsText(globals)
              => last.message =
                   (LET b == Upper(globals.FLUX_KONTEXT_INFERENCE_BACKEND) IN
                    CASE b = "NIM"      -> "NIM: FLUX_KONTEXT_NIM_URL is not configured"
                      [] b = "INVOKEAI" -> "INVOKEAI: INVOKEAI_URL is not configured"
                      [] b = "COMFYUI"  -> "COMFYUI: COMFYUI_URL is not configured"
                      [] OTHER          -> "Invalid FLUX_KONTEXT_INFERENCE_BACKEND value"))

C8_Witness ==
    /\ last.called
    /\ globals.FLUX_KONTEXT_INFERENCE_BACKEND = "INVOKEAI"
    /\ globals.INVOKEAI_URL = ""
    /\ last.message = "INVOKEAI: INVOKEAI_URL is not configured"
    /\ Len(tasks) = 1 /\ tasks[1].net > 0

\* ======================================================= claims, SpecTasks
Writes(t) == 1..Len(tasks[t].wrote)
\* the k-th file task t wrote is on the disk as t wrote it
Survives(t, k) ==
    \E e \in disk : e.path = tasks[t].wrote[k].path /\ e.owner = <<t, k - 1>>
SameSecond(a, b) == a \div TicksPerSecond = b \div TicksPerSecond

\* C9 (as stated): every file written by a task is still on the disk as that
\* task wrote it, whatever the interleaving of the tasks
C9_NoOverwrite ==
    \A t \in TaskIds : \A k \in Writes(t) : Survives(t, k)

\* C9 (amended): a file written by a task is replaced only by a task of the
\* same backend that saved an image of the same index into the same output
\* directory within the same clock second; in every other case the files of
\* concurrent requests are distinct and both stay.
C9_OverwriteOnlySameSecond ==
    \A t \in TaskIds : \A k \in Writes(t) :
        \/ Survives(t, k)
        \/ \E u \in TaskIds \ {t} : \E j \in Writes(u) :
              /\ tasks[u].backend = tasks[t].backend
              /\ j = k
              /\ tasks[u].wrote[j].path.dir = tasks[t].wrote[k].path.dir
              /\ SameSecond(tasks[u].wrote[j].at, tasks[t].wrote[k].at)

C9_Witness ==
    /\ Len(tasks) = 2
    /\ tasks[1].backend = tasks[2].backend
    /\ tasks[1].pc = "done" /\ tasks[2].pc = "done"
    /\ Len(tasks[1].wrote) = 1 /\ Len(tasks[2].wrote) = 1
    /\ tasks[1].wrote[1].path.dir = tasks[2].wrote[1].path.dir
    /\ ~SameSecond(tasks[1].wrote[1].at, tasks[2].wrote[1].at)
    /\ Cardinality(disk) = 2

\* C10: a task writes its artifact into the output directory that was in
\* effect when the task was started
C10_StartDirectoryUsed ==
    \A t \in TaskIds : \A k \in Writes(t) :
        tasks[t].wrote[k].path.dir = tasks[t].startDir

\* ================================================ claims, SpecMonitor (II)
\* positions of the step x in the log of the session's steps
Positions(x) == {k \in 1..Len(calls) : calls[k] = x}
MonitoringSteps == {"connect", "history", "fetch"}

\* C11 (as stated): the steps of a session happen in the order enqueue,
\* monitoring, artifact persistence, wallpaper-set attempt: no step of an
\* earlier phase follows a step of a later phase.
C11_PhasesInOrder ==
    \A j \in 1..Len(calls) : \A k \in 1..Len(calls) :
        j < k =>
            /\ ~(calls[j] \in MonitoringSteps /\ calls[k] = "enqueue")
            /\ ~(calls[j] = "save" /\ calls[k] \in MonitoringSteps \cup {"enqueue"})
            /\ ~(calls[j] = "wallpaper" /\ calls[k] # "wallpaper")

\* C11 (amended): the enqueue is the first step and happens once; every
\* file is written after the monitoring has been entered and has returned
\* its artifact set, and no monitoring step follows a write; the wallpaper
\* is attempted per image, directly after that image's file was written,
\* so with several images the writes and the wallpaper attempts alternate.
C11_OrderPerImage ==
    /\ (calls # <<>> => calls[1] = "enqueue")
    /\ Cardinality(Positions("enqueue")) <= 1
    /\ \A k \in Positions("save") :
          /\ retval = "output_images"
          /\ \E j \in Positions("connect") : j < k
          /\ \A j \in 1..Len(calls) : j > k => calls[j] \notin MonitoringSteps
          /\ calls[k - 1] # "save"
    /\ \A k \in Positions("wallpaper") : k > 1 /\ calls[k - 1] = "save"

C11_Witness ==
    /\ pc = "done"
    /\ Cardinality(Positions("save")) = 2
    /\ Cardinality(Positions("wallpaper")) = 2
    /\ Cardinality(Positions("fetch")) = 2

\* ===================================================== claims, SpecDispatch
\* the tool_calls of the current frame the loop has dispatched so far; the
\* call at which an exception left main() is dispatched too
Dispatched ==
    SubSeq(input.tool_calls, 1,
           IF mpc = "crashed" THEN ci
           ELSE IF ci - 1 <= Len(input.tool_calls) THEN ci - 1
           ELSE Len(input.tool_calls))
InFrame == mpc \in {"route", "write", "check", "stopped", "crashed"}
Answered == mpc \in {"check", "stopped"}
LastOut == out[Len(out)]
UnknownFuncs == {input.tool_calls[k].func : k \in 1..Len(input.tool_calls)}
                    \ (commands \cup {"absent"})

\* C12: the response to a generation command is written without waiting
\* for the thread the command started: whenever main() is about to write,
\* the write can happen whatever the threads are doing; and the host is
\* written to once per answered frame only, so no thread outcome is ever
\* written.
C12_ResponseWithoutWaiting ==
    /\ (mpc = "write" => ENABLED WriteResponse)
    /\ Len(out) <= reads
    /\ \A k \in 1..Len(out) :
          /\ out[k].frame <= reads
          /\ (k > 1 => out[k - 1].frame < out[k].frame)

C12_Witness ==
    /\ Len(out) = 2
    /\ out[1].response.success
    /\ Len(tasks) = 1
    /\ tasks[1].pc = "start"
    /\ mpc = "check"

\* C13: the loop ends only when cmd is the shutdown command, after the
\* response of that frame has been written.
C13_EndsOnlyOnShutdown ==
    mpc \in {"stopped", "crashed"} =>
        /\ cmd = SHUTDOWN_COMMAND
        /\ out # <<>>
        /\ LastOut.frame = reads

\* C14: for every frame whose calls all have a func and that has a call
\* with an unknown func, the response written is a failure whose message
\* names the unknown command.
C14_UnknownCommandNamed ==
    (/\ Answered
     /\ input.has_calls
     /\ \A k \in 1..Len(input.tool_calls) : input.tool_calls[k].func # "absent"
     /\ UnknownFuncs # {})
    => (/\ ~LastOut.response.null
        /\ ~LastOut.response.success
        /\ LastOut.response.message.text = "Plugin Error! Unknown command: "
        /\ LastOut.response.message.arg \in UnknownFuncs)

\* C15: for every frame without tool_calls, and every frame with a call
\* without func, the response written is the fixed malformed-input failure.
C15_MalformedAnswered ==
    (/\ Answered
     /\ \/ ~input.has_calls
        \/ \E k \in 1..Len(input.tool_calls) : input.tool_calls[k].func = "absent")
    => LastOut.response = MalformedResponse

\* what main() calls for a sequence of dispatched tool_calls when every
\* command other than initialize and shutdown gets the pre-step once and
\* is then called with (params, messages, system_info)
RECURSIVE ExpectedInvocations(_)
ExpectedInvocations(cs) ==
    IF cs = <<>> THEN <<>>
    ELSE LET c == Head(cs) IN
         (IF c.func \notin commands THEN <<>>
          ELSE IF c.func \in {INITIALIZE_COMMAND, SHUTDOWN_COMMAND}
               THEN <<Invocation(c.func, <<>>)>>
               ELSE <<Invocation(INITIALIZE_COMMAND, <<>>),
                      Invocation(c.func, HandlerArgs(input, c))>>)
         \o ExpectedInvocations(Tail(cs))

\* C16: every dispatched command other than initialize and shutdown has the
\* initialize validation run once directly before its handler, which is
\* then called with (params, messages, system_info); initialize and
\* shutdown are called without the pre-step.
C16_PreStepThenHandler ==
    InFrame => invoked = ExpectedInvocations(Dispatched)

\* C17: no handler error propagates into the dispatch loop: main() is never
\* left by an exception.
C17_NoHandlerErrorEscapes ==
    mpc # "crashed"

\* C18: after a failed read no handler has been called and no response has
\* been written for that attempt, and the loop is at its next read.
C18_ReadFailureSkipped ==
    (reads > 0 /\ ~input.ok) =>
        /\ mpc = "recv"
        /\ invoked = <<>>
        /\ response = NullResponse
        /\ \A k \in 1..Len(out) : out[k].frame < reads

C18_Witness ==
    /\ reads = 2
    /\ input.ok
    /\ mpc = "check"
    /\ Len(out) = 1
    /\ out[1].frame = 2

\* ======================================================= claims, SpecSelect (II)
\* the worker of task t has patched its workflow
Patched(t) == tasks[t].workflow # NoWorkflow

\* C19: after any sequence of generation requests on the graph backends,
\* sequential or concurrent, the shared workflow templates are unchanged,
\* and the workflow of each request carries the values of that request
\* only.
C19_TemplatesUnchanged ==
    /\ templates = Templates
    /\ \A t \in TaskIds :
          Patched(t) => /\ tasks[t].workflow.prompt = t
                        /\ tasks[t].workflow.image = t
                        /\ tasks[t].workflow.steps =
                              IF tasks[t].backend = "COMFYUI" THEN tasks[t].steps
                              ELSE Templates.INVOKEAI.steps

C19_Witness ==
    /\ Len(tasks) = 2
    /\ tasks[1].backend = "INVOKEAI" /\ tasks[2].backend = "COMFYUI"
    /\ Patched(1) /\ Patched(2)
    /\ tasks[1].workflow # tasks[2].workflow

\* ======================================================= claims, SpecRequest
\* C20: within one generation request every remote call is attempted at
\* most once.  In a streaming-graph session the enqueue, the status query,
\* the opening of the stream and the history query happen at most once and
\* there is one fetch per image descriptor passed; a thread of any backend
\* has made at most one call per step it has passed: none before its first
\* call, one after its upload or infer call, two at most.
C20_NoRetry ==
    /\ \A x \in {"enqueue", "status", "connect", "history"} : Count(calls, x) <= 1
    /\ Count(calls, "fetch") = dl
    /\ dl <= history.n
    /\ \A t \in TaskIds :
          LET b == tasks[t].backend
              at == tasks[t].pc
              n == tasks[t].net
          IN  /\ (b \in {"NIM", "FLUX"} => n <= 1)
              /\ (b \in {"INVOKEAI", "COMFYUI"} => n <= 2)
              /\ (at = "start" => n = 0)
              /\ (at \in {"infer", "upload"} => n = 0)
              /\ (at \in {"submit", "execute"} => n = 1)
              /\ (at = "save" => n = IF b = "COMFYUI" THEN 2 ELSE 1)

\* a session whose history query listed the most descriptors and whose
\* first fetch failed has ended
C20_Witness ==
    /\ pc = "done"
    /\ Count(calls, "history") = 1
    /\ dl = MaxDescr
    /\ Len(output_images.imgs) < dl

\* a thread whose upload failed has ended
C20_ThreadWitness ==
    \E t \in TaskIds : tasks[t].backend = "INVOKEAI" /\ tasks[t].pc = "done" /\ tasks[t].net = 1

\* ============================================ claims, SpecMonitor (III)
\* C21: in the fallback poll a failed fetch of one listed image, of any
\* kind, skips only that image: once the download of a history that lists
\* images is over, every listed image has been asked for.
C21_FailedFetchSkipsOnlyThat ==
    (/\ Count(calls, "history") = 1
     /\ history.kind = "images"
     /\ pc \notin {"check", "download"})
        => Count(calls, "fetch") = history.n
\* the images of the artifact set are fallback images, in the order of the
\* history's descriptors, each descriptor at most once
InDescriptorOrder(imgs) ==
    /\ \A i \in 1..Len(imgs) : imgs[i][1] = "hist" /\ imgs[i][2] \in 1..dl
    /\ \A i, j \in 1..Len(imgs) : i < j => imgs[i][2] < imgs[j][2]

\* C22: when the fallback poll retrieved some but not all of the listed
\* images, execute_comfyui_workflow returns the artifact set, the worker
\* accepts it, and the set holds the retrieved images and nothing else;
\* the worker saves from that set only.
C22_PartialSuccess ==
    (/\ HistoryQueries = 1
     /\ pc \in {"worker", "save", "wallpaper", "done"}
     /\ 0 < Len(output_images.imgs)
     /\ Len(output_images.imgs) < history.n)
    => /\ retval = "output_images"
       /\ pc # "worker" => workerLog = "success"
       /\ InDescriptorOrder(output_images.imgs)
       /\ Len(files) <= Len(output_images.imgs)
       /\ \A i \in 1..Len(files) : files[i] = output_images.imgs[i]

\* one of two listed images was retrieved, and the session saved it
C22_Witness ==
    /\ pc = "done"
    /\ history.n = 2
    /\ Count(calls, "fetch") = 2
    /\ Len(output_images.imgs) = 1
    /\ files = output_images.imgs
    /\ workerLog = "success"

\* C23: when the deadline passed during the monitoring with no image
\* accumulated, the monitoring has stopped, and once the fallback decision
\* is taken the history has been queried exactly once; the session is
\* reported as failed only after that query.
C23_DeadlineThenFallback ==
    endCause = "deadline" =>
        /\ elapsed > timeout_seconds
        /\ pc # "loop"
        /\ (StreamImages = 0 /\ PastCheck => HistoryQueries = 1)
        /\ (StreamImages = 0 /\ retval = "None" => HistoryQueries = 1)
        /\ (StreamImages = 0 /\ workerLog = "failure" => HistoryQueries = 1)

\* the deadline passed with nothing accumulated, the history knew nothing of
\* the session, and the worker logged the failure
C23_Witness ==
    /\ endCause = "deadline"
    /\ StreamImages = 0
    /\ HistoryQueries = 1
    /\ retval = "None"
    /\ workerLog = "failure"
    /\ pc = "done"

\* the artifact set holds the binary frames of the stream in arrival order
InArrivalOrder(imgs) ==
    \A i \in 1..Len(imgs) : imgs[i] = <<"ws", i>>

\* C24: binary frames are accumulated in arrival order as images of the
\* save-output node; when the monitoring has ended with at least one
\* accumulated, the session returns exactly those images and makes no
\* further remote call.
C24_StreamImagesReturned ==
    (StreamImages > 0 /\ pc # "loop") =>
        /\ output_images.has1
        /\ InArrivalOrder(output_images.imgs)
        /\ HistoryQueries = 0
        /\ Count(calls, "fetch") = 0
        /\ (pc \in {"worker", "save", "wallpaper", "done"} => retval = "output_images")

\* ========================================================= claims, SpecInfer
\* the step in which main() calls a handler and gets its response
HandlerReturns == mpc = "route" /\ ci' = ci + 1
\* the API key is absent or not well-formed: null, empty, the placeholder,
\* or a text that does not start with "nvapi-"
KeyMalformed(k) ==
    \/ k.t # "str"
    \/ k.s = <<>>
    \/ k.s = KeyPlaceholder
    \/ ~StartsWith(k, KeyPrefix)
Hosted(u) == u.t = "str" /\ StartsWith(u, HostedOrigin)

C25_LocalWitness ==
    /\ mpc = "write"
    /\ globals.FLUX_NIM_URL = LocalFluxUrl
    /\ globals.NVIDIA_API_KEY = NoneValue
    /\ response.success
    /\ Len(tasks) = 1

\* threads of the direct-infer path
FluxTasks == {t \in TaskIds : tasks[t].backend = "FLUX"}

\* C26 (as stated): a direct-infer request makes exactly one POST; when the
\* answer holds an artifact exactly one file is saved and one wallpaper
\* attempt follows; otherwise no file is saved and no attempt is made.
\* n is the number of artifacts the thread took from the answer.
C26_OneFilePerArtifact ==
    \A t \in FluxTasks :
        tasks[t].pc = "done" =>
            /\ tasks[t].net = 1
            /\ Len(tasks[t].wrote) = tasks[t].n
            /\ tasks[t].wallpapers = tasks[t].n

\* C26 (amended): a direct-infer request makes one POST and no more; a file
\* is saved only when the answer held an artifact, at most one, and exactly
\* one when writing it did not fail; the wallpaper is set once for a saved
\* file, after it was written, and never without one.
C26_AtMostOneFile ==
    \A t \in FluxTasks :
        /\ tasks[t].net <= 1
        /\ tasks[t].pc = "start" => tasks[t].net = 0
        /\ tasks[t].pc \in {"save", "done"} => tasks[t].net = 1
        /\ Len(tasks[t].wrote) <= tasks[t].n
        /\ tasks[t].n <= 1
        /\ tasks[t].wallpapers = Len(tasks[t].wrote)
        /\ tasks[t].i = Len(tasks[t].wrote)

\* an answer with an artifact has been saved and set as wallpaper
C26_Witness ==
    \E t \in FluxTasks :
        /\ tasks[t].pc = "done"
        /\ tasks[t].n = 1
        /\ Len(tasks[t].wrote) = 1
        /\ tasks[t].wallpapers = 1
        /\ tasks[t].net = 1

\* ================================================ claims, SpecDispatch (II)
\* the step in which main() runs the initialize pre-step and then the
\* handler of a command, which returns
PreStepAndHandler ==
    /\ mpc = "route"
    /\ ci' = ci + 1
    /\ cmd' \in commands
    /\ ~CalledPlain(cmd')

\* C27: for every dispatched command the configuration is reloaded before
\* any configuration value is read on its behalf: the values the implicit
\* initialize validation reads (globals, when the command is dispatched)
\* are those of the reloaded configuration (globals', which the handler's
\* load_config leaves).
C27_ReloadBeforeValidation ==
    [][PreStepAndHandler =>
          /\ globals.OUTPUT_DIRECTORY = globals'.OUTPUT_DIRECTORY
          /\ globals.GALLERY_DIRECTORY = globals'.GALLERY_DIRECTORY]_vars

\* threads that have not ended
Running == {t \in TaskIds : tasks[t].pc # "done"}

\* C28: shutdown never waits for background tasks: after the response to a
\* shutdown command is written the loop can end whatever the threads are
\* doing, and the step that ends the loop leaves every thread as it is.
C28_ShutdownDoesNotWait ==
    /\ mpc = "check" => ENABLED ShutdownCheck
    /\ (mpc = "check" /\ LoopEnds(cmd) /\ Running # {}) =>
          ENABLED (ShutdownCheck /\ mpc' = "stopped" /\ tasks' = tasks)

\* the loop has ended after a shutdown command while a thread is running
C28_Witness ==
    /\ mpc = "stopped"
    /\ cmd = SHUTDOWN_COMMAND
    /\ Running # {}
    /\ Len(out) > 0

\* ========================================================== claims, SpecLive
\* C29: every remote call of a background task is bounded by a timeout, so
\* every background task that was started eventually ends, also when a
\* remote service never answers.
C29_EveryTaskTerminates ==
    \A t \in 1..MaxTasks :
        (Len(tasks) >= t) ~> (Len(tasks) >= t /\ tasks[t].pc = "done")

\* ========================================================== claims, SpecRead
\* the bytes the host wrote
Sent == Len(Encode(written))

\* C30: read_command goes on reading while a chunk was completely filled
\* and stops at the first short or empty chunk; the command it returns is
\* decoded from the last chunk read only; and for a frame that fits into
\* one short chunk the command returned equals the frame.
C30_ShortFrameReturned ==
    /\ rpc = "read" => Len(pipe) = Sent - BUFFER_SIZE * Len(chunks)
    /\ rpc = "decode" =>
          /\ message_bytes < BUFFER_SIZE
          /\ Sent = BUFFER_SIZE * (Len(chunks) - 1) + message_bytes
    /\ (rpc = "returned" /\ command.ok) =>
          command = Loads(chunks[Len(chunks)])
    /\ (/\ rpc = "returned"
        /\ Len(chunks) = 1
        /\ Sent < BUFFER_SIZE
        /\ Loads(written).ok)
          => command = Loads(written)

\* ================================================= claims, SpecSelect (III)
\* C31: the temporary file created for a streaming-graph request is deleted
\* by the worker on every exit path taken after its creation: a thread of
\* that backend that has ended has no temporary file, or has deleted it.
C31_TempFileDeleted ==
    \A t \in TaskIds :
        (tasks[t].backend = "COMFYUI" /\ tasks[t].pc = "done")
            => tasks[t].temp \in {"none", "deleted"}

\* ================================================== claims, SpecNormalize
\* C32: for every source image and every target rectangle with positive
\* dimensions the normalizer's output has exactly the target width and
\* height, and both crop origins are non-negative
C32_ExactTargetSize ==
    cropped_img # NoCrop =>
        /\ cropped_img.width = target_size[1]
        /\ cropped_img.height = target_size[2]
        /\ cropped_img.left >= 0
        /\ cropped_img.top >= 0

\* ================================================ claims, SpecSelect (IV)
\* C33: for every accepted generate_image_using_kontext request, on each
\* of the three backends, the validated steps value is the step count
\* carried by the payload or the patched workflow sent to the backend
C33_ValidatedStepsCarried ==
    \A t \in TaskIds :
        tasks[t].carried # 0 => tasks[t].carried = tasks[t].steps

\* ================================================ claims, SpecMonitorLive
\* C34: the monitoring loop always terminates: whatever the event stream
\* does (silent, emitting non-qualifying events, raising on every read),
\* a deadline check made after the deadline has passed ends the loop, and
\* every loop that was entered is left
C34_MonitoringTerminates ==
    /\ [][(pc = "loop" /\ DeadlinePassed(elapsed)) => pc' # "loop"]_vars
    /\ (pc = "loop") ~> (pc # "loop")

\* the loop was left at a deadline check, no event having completed it
C34_Witness ==
    /\ pc = "check"
    /\ endCause = "deadline"
    /\ ~workflow_completed
    /\ DeadlinePassed(elapsed)

\* ================================================ claims, SpecDispatch (III)
\* the shutdown handler has been executed for the current frame
ShutdownExecuted ==
    \E i \in 1..Len(invoked) : invoked[i].handler = SHUTDOWN_COMMAND

\* C35: once the shutdown handler has been executed, no further command
\* handler is executed and no further frame is read, whatever the shape of
\* the frame, frames whose tool_calls hold shutdown followed by other
\* calls included
C35_NothingAfterShutdown ==
    [][ShutdownExecuted => (invoked' = invoked /\ reads' = reads)]_vars

\* C36: every message written to the output channel is a response envelope
\* with a boolean success field, for every decoded frame and every shape
\* of tool_calls (empty, one call, several)
C36_EnvelopeWritten ==
    \A i \in 1..Len(out) :
        /\ ~out[i].response.null
        /\ out[i].response.success \in BOOLEAN

\* the handlers main() called for the calls of the frame: invoked without
\* the pre-steps, an initialize directly before a handler that has one
RECURSIVE CalledHandlers(_)
CalledHandlers(inv) ==
    IF inv = <<>> THEN <<>>
    ELSE IF /\ Len(inv) >= 2
            /\ inv[1].handler = INITIALIZE_COMMAND
            /\ ~CalledPlain(inv[2].handler)
         THEN CalledHandlers(Tail(inv))
         ELSE <<inv[1].handler>> \o CalledHandlers(Tail(inv))

\* the funcs of the calls cs that are keys of commands, in list order
RECURSIVE KnownFuncs(_)
KnownFuncs(cs) ==
    IF cs = <<>> THEN <<>>
    ELSE (IF Head(cs).func \in commands THEN <<Head(cs).func>> ELSE <<>>)
            \o KnownFuncs(Tail(cs))

\* main() has left the frame it decoded
FrameLeft == reads > 0 /\ input.ok /\ mpc \in {"check", "stopped", "crashed"}

\* C37: exactly one response is written per successfully decoded frame;
\* the calls of the frame are dispatched in list order; the response
\* written is the one of the last call processed
C37_OneResponsePerFrame ==
    /\ \A k, j \in 1..Len(out) : out[k].frame = out[j].frame => k = j
    /\ InFrame => CalledHandlers(invoked) = KnownFuncs(Dispatched)
    /\ FrameLeft => /\ out # <<>>
                    /\ LastOut.frame = reads
                    /\ LastOut.response = response

\* ================================================ claims, SpecSelect (V)
\* C38: generate_image_using_kontext starts exactly one background task
\* when it returns success and none when it returns failure, and the
\* backend of the started task is the one the selector names as reloaded
\* in that same call
C38_OneTaskOfSelectedBackend ==
    /\ [](last.called => (last.success <=> last.started))
    /\ [][Len(tasks') # Len(tasks) =>
            /\ Len(tasks') = Len(tasks) + 1
            /\ SubSeq(tasks', 1, Len(tasks)) = tasks
            /\ last'.called /\ last'.success /\ last'.started
            /\ tasks'[Len(tasks')].pc = "start"
            /\ tasks'[Len(tasks')].backend =
                  Upper(globals'.FLUX_KONTEXT_INFERENCE_BACKEND)]_vars

\* two successful calls under two selectors, the second in lower case, each
\* with its own task, and a failed call after them
C38_Witness ==
    /\ Len(tasks) = 2
    /\ tasks[1].backend = "INVOKEAI"
    /\ tasks[2].backend = "COMFYUI"
    /\ last.called /\ ~last.success /\ ~last.started
    /\ globals.FLUX_KONTEXT_INFERENCE_BACKEND = "BOGUS"

\* the call that started the lower-case selector's task has just returned
C38_StartWitness ==
    /\ Len(tasks) = 1
    /\ tasks[1].backend = "COMFYUI" /\ tasks[1].pc = "start"
    /\ globals.FLUX_KONTEXT_INFERENCE_BACKEND = "comfyui"
    /\ last.called /\ last.success /\ last.started

\* ================================================ claims, SpecMonitor (III)
\* C39: only an event that carries the session's own correlation id ends
\* the monitoring as completed; an "executing" or "executed" event of
\* another prompt id leaves the session in the loop
C39_OwnEventsComplete ==
    workflow_completed => endMsg.pid = prompt_id

\* ================================================== claims, SpecConfig
\* what a successful load leaves in the variables, g being their values
\* before the call: for each key the value of the file, or the default
\* named in the code when the file lacks the key
GALLERY_DIRECTORY_Default == None
INVOKEAI_URL_Default == "http://localhost:9090"
FLUX_KONTEXT_NIM_URL_Default == "http://localhost:8011"
COMFYUI_URL_Default == "http://localhost:8188"
BACKEND_Default == "NIM"
HasKey(v) == v # "absent"
FromFileOrDefault(g, f) ==
    /\ g.GALLERY_DIRECTORY =
          (IF HasKey(f.GALLERY_DIRECTORY) THEN f.GALLERY_DIRECTORY ELSE GALLERY_DIRECTORY_Default)
    /\ g.NVIDIA_API_KEY =
          (IF f.NVIDIA_API_KEY # AbsentValue THEN f.NVIDIA_API_KEY ELSE NoneValue)
    /\ g.FLUX_NIM_URL =
          (IF f.FLUX_NIM_URL # AbsentValue THEN f.FLUX_NIM_URL
           ELSE BUILD_NVIDIA_COM_FLUX_HOSTED_NIM)
    /\ g.INVOKEAI_URL =
          (IF HasKey(f.INVOKEAI_URL) THEN f.INVOKEAI_URL ELSE INVOKEAI_URL_Default)
    /\ g.FLUX_KONTEXT_NIM_URL =
          (IF HasKey(f.FLUX_KONTEXT_NIM_URL) THEN f.FLUX_KONTEXT_NIM_URL
           ELSE FLUX_KONTEXT_NIM_URL_Default)
    /\ g.COMFYUI_URL =
          (IF HasKey(f.COMFYUI_URL) THEN f.COMFYUI_URL ELSE COMFYUI_URL_Default)
    /\ g.FLUX_KONTEXT_INFERENCE_BACKEND =
          (IF HasKey(f.FLUX_KONTEXT_INFERENCE_BACKEND) THEN f.FLUX_KONTEXT_INFERENCE_BACKEND
           ELSE BACKEND_Default)

\* C40: load_config is all-or-nothing: when the file is missing, is not
\* valid JSON or otherwise fails to load, every configuration variable
\* keeps the value it had before the call; when the load succeeds every
\* variable is set from the file or its default, the default of
\* OUTPUT_DIRECTORY being the value the variable has at the call (line 241)
C40_AllOrNothing ==
    [][(config' # config \/ globals' # globals) =>
          IF ~config'.readable
          THEN globals' = globals
          ELSE /\ FromFileOrDefault(globals', config')
               /\ globals'.OUTPUT_DIRECTORY =
                     (IF HasKey(config'.OUTPUT_DIRECTORY) THEN config'.OUTPUT_DIRECTORY
                      ELSE globals.OUTPUT_DIRECTORY)]_vars

\* a load failed after a successful one had changed the variables, and
\* they are as that load left them
C40_Witness ==
    /\ ~config.readable
    /\ globals.GALLERY_DIRECTORY = "G"
    /\ globals.OUTPUT_DIRECTORY = "B"
    /\ globals.FLUX_KONTEXT_INFERENCE_BACKEND = "COMFYUI"
    /\ globals.COMFYUI_URL = ""

====
